---- MODULE Spec2Model ----
(***************************************************************************)
(* A model of ALICE-Animation's temporal composition core:                 *)
(*   - Director (src/src/director.rs): the time-sorted cut sequence,        *)
(*     add_cut, find_active_cut, get_cut, duration and evaluate;            *)
(*   - CameraTrack (src/src/camera.rs): the seven keyframe channels,        *)
(*     add_keyframe, evaluate and apply_preset;                             *)
(*   - SceneGraph (src/src/scene.rs): actor slots, the parent chain of      *)
(*     get_world_transform and evaluate_scene;                              *)
(*   - the episode container (src/src/episode.rs): serialize_episode and    *)
(*     deserialize_episode with the 16-byte ANIM header and the CRC-32;     *)
(*   - AnimationCache (src/src/cache_bridge.rs): the frame map of           *)
(*     get_or_evaluate with its eviction.                                   *)
(* f32 times are modelled by small integers (finite, totally ordered).      *)
(* Option<T> is modelled by a sequence of length 0 (None) or 1 (Some).      *)
(***************************************************************************)
EXTENDS Integers, Sequences, FiniteSets, TLC

VARIABLES
    sorted_cuts,   \* Director.sorted_cuts : Vec<(CutId, Cut)>
    next_id,       \* Director.next_id : u32
    issued,        \* history: the cuts passed to add_cut, in call order
    query,         \* Option<f32>: the time last passed to find_active_cut
    active,        \* Option<(CutId, Cut)>: what that call returned
    returned,      \* history: the CutIds add_cut returned, in call order
    dir_call,      \* Option: the last get_cut, duration or evaluate call
    dir_out,       \* Option: what that call returned
    actors,        \* SceneGraph.actors : Vec<Option<Actor>>
    actor_next_id, \* SceneGraph.next_id : u32
    root_actors,   \* SceneGraph.root_actors : Vec<ActorId>
    scene_time,    \* Option<f32>: the time last passed to evaluate_scene
    scene_out,     \* Option<SdfNode>: what that call returned
    added,         \* history: (ActorId returned, Actor passed) per add_actor call
    world,         \* Option: the last get_world_transform(id) and its outcome
    tie,           \* the keyframe library's choice among samples at one time
    camera,        \* a CameraTrack being authored
    preset,        \* Option: the last apply_preset call and the track before it
    cam_call,      \* Option<f32>: the time last passed to CameraTrack::evaluate
    cam_out,       \* Option<CameraState>: what that call returned
    earlier,       \* Option: an evaluation call made before, and its result
    frames,        \* AnimationCache.frames : HashMap<u32, CachedFrame>
    max_frames,    \* AnimationCache.max_frames : usize
    hit_count,     \* AnimationCache.hit_count : u64
    miss_count,    \* AnimationCache.miss_count : u64
    cache_call,    \* Option: the last get_or_evaluate(frame_index, time) call
    cache_out,     \* Option<DirectorState>: what that call returned
    package,       \* Option<EpisodePackage>: the package once it is built
    wire,          \* the Vec<u8> serialize_episode writes and the reader reads
    sent,          \* history: the bytes as serialize_episode wrote them
    written,       \* Option<usize>: what serialize_episode returned
    edits,         \* the number of changes made to `wire` after it was written
    pc,            \* where deserialize_episode stands
    header,        \* deserialize_episode: the 16 header bytes read
    body,          \* deserialize_episode: the body bytes read
    de_result,     \* Option<io::Result<EpisodePackage>>: what it returned
    steps          \* history: the steps deserialize_episode has performed

dirVars == <<sorted_cuts, next_id, issued, query, active, returned, dir_call, dir_out>>

sceneVars == <<actors, actor_next_id, root_actors, scene_time, scene_out, added, world>>

episodeVars == <<package, wire, sent, written, edits, pc, header, body, de_result, steps>>

camVars == <<tie, camera, preset, cam_call, cam_out>>

cacheVars == <<frames, max_frames, hit_count, miss_count, cache_call, cache_out>>

vars == <<dirVars, sceneVars, episodeVars, camVars, cacheVars, earlier>>

\* What an operation of the Director, of the SceneGraph, or of the episode
\* container cannot touch.
notDirVars == <<sceneVars, episodeVars, camVars, cacheVars>>
notSceneVars == <<dirVars, episodeVars, camVars, cacheVars>>
notEpisodeVars == <<dirVars, sceneVars, camVars, cacheVars, earlier>>
notCamVars == <<dirVars, sceneVars, episodeVars, cacheVars>>
notCacheVars == <<dirVars, sceneVars, episodeVars, camVars, earlier>>

----------------------------------------------------------------------------
(* Bounds of the model. *)

MaxCuts == 3
MaxTime == 3
MaxActors == 3

Times == 0..MaxTime

\* The end times tried for a cut starting at s: positive, zero and negative
\* durations.
Ends(s) == {e \in Times : e >= s - 1}

None == <<>>
Some(x) == <<x>>

----------------------------------------------------------------------------
(* ActorTransform. A Vec3 is <<x, y, z>> and a Quat is <<x, y, z, w>>, with   *)
(* integer components: the rotations of the model are the identity and the   *)
(* half turns about the axes, on which glam's formulas are exact.            *)

Vec3(x, y, z) == <<x, y, z>>
VecAdd(a, b) == <<a[1] + b[1], a[2] + b[2], a[3] + b[3]>>
VecMul(a, b) == <<a[1] * b[1], a[2] * b[2], a[3] * b[3]>>
VecScale(a, k) == <<a[1] * k, a[2] * k, a[3] * k>>
Dot(a, b) == a[1] * b[1] + a[2] * b[2] + a[3] * b[3]
Cross(a, b) ==
    <<a[2] * b[3] - a[3] * b[2], a[3] * b[1] - a[1] * b[3], a[1] * b[2] - a[2] * b[1]>>

QUAT_IDENTITY == <<0, 0, 0, 1>>

\* glam: Quat * Quat
QuatMul(p, q) ==
    <<p[4] * q[1] + p[1] * q[4] + p[2] * q[3] - p[3] * q[2],
      p[4] * q[2] - p[1] * q[3] + p[2] * q[4] + p[3] * q[1],
      p[4] * q[3] + p[1] * q[2] - p[2] * q[1] + p[3] * q[4],
      p[4] * q[4] - p[1] * q[1] - p[2] * q[2] - p[3] * q[3]>>

\* glam: Quat * Vec3
QuatRotate(q, v) ==
    LET b == <<q[1], q[2], q[3]>>
    IN  VecAdd(VecAdd(VecScale(v, q[4] * q[4] - Dot(b, b)), VecScale(b, Dot(v, b) * 2)),
               VecScale(Cross(b, v), q[4] * 2))

ActorTransform(position, rotation, scale) ==
    [position |-> position, rotation |-> rotation, scale |-> scale]

\* ActorTransform::default
ActorTransform_default == ActorTransform(Vec3(0, 0, 0), QUAT_IDENTITY, Vec3(1, 1, 1))

\* Faulty variant: combine with the child's position neither scaled nor rotated.
combine_unrotated(self, child) ==
    ActorTransform(VecAdd(self.position, child.position),
                   QuatMul(self.rotation, child.rotation),
                   VecMul(self.scale, child.scale))

\* ActorTransform::combine
combine(self, child) ==
    ActorTransform(
        VecAdd(self.position, QuatRotate(self.rotation, VecMul(self.scale, child.position))),
        QuatMul(self.rotation, child.rotation),
        VecMul(self.scale, child.scale))

----------------------------------------------------------------------------
(* Keyframe channels. alice_sdf::animation (Keyframe, Track, Timeline) is a  *)
(* library outside src/; its channels are modelled from the interface the    *)
(* camera code consumes: add a sample, kept in time order, and evaluate at   *)
(* a time. A Track is the sequence of its samples <<time, value>>. Which of  *)
(* several samples at one time an evaluation reads is the library's choice;  *)
(* the variable `tie` holds it for the whole behaviour.                      *)

Ties == {"earliest", "latest"}

\* Keyframe::new(time, value)
Keyframe(time, value) == <<time, value>>

\* Track::add_keyframe: the sample goes behind the samples not later than it.
Track_add_keyframe(track, kf) ==
    LET n == Cardinality({i \in 1..Len(track) : track[i][1] <= kf[1]})
    IN  SubSeq(track, 1, n) \o <<kf>> \o SubSeq(track, n + 1, Len(track))

\* The sample read at a time that has samples.
SampleAt(track, time) ==
    LET at == {i \in 1..Len(track) : track[i][1] = time}
    IN  IF tie = "earliest"
        THEN track[CHOOSE i \in at : \A j \in at : i <= j][2]
        ELSE track[CHOOSE i \in at : \A j \in at : i >= j][2]

\* Linear interpolation, rounded down to the resolution of the model.
Lerp(t0, v0, t1, v1, time) == v0 + ((v1 - v0) * (time - t0)) \div (t1 - t0)

\* Track::evaluate(time): the sample at `time` if there is one, the nearest
\* sample outside the sampled range, the interpolated value inside it.
Track_evaluate(track, time) ==
    LET times == {track[i][1] : i \in 1..Len(track)}
        before == {t \in times : t < time}
        after == {t \in times : t > time}
    IN  IF times = {} THEN 0
        ELSE IF time \in times THEN SampleAt(track, time)
        ELSE IF before = {} THEN SampleAt(track, CHOOSE t \in after : \A u \in after : t <= u)
        ELSE IF after = {} THEN SampleAt(track, CHOOSE t \in before : \A u \in before : t >= u)
        ELSE LET t0 == CHOOSE t \in before : \A u \in before : t >= u
                 t1 == CHOOSE t \in after : \A u \in after : t <= u
             IN  Lerp(t0, SampleAt(track, t0), t1, SampleAt(track, t1), time)

\* Timeline::get_value(name, time): a Timeline is its tracks by name.
get_value(timeline, name, time) ==
    IF name \in DOMAIN timeline THEN Some(Track_evaluate(timeline[name], time)) ELSE None

\* Option::unwrap_or
unwrap_or(opt, default) == IF opt = None THEN default ELSE opt[1]

----------------------------------------------------------------------------
(* Camera. Positions are f32 values modelled by integers; a field of view   *)
(* is in thousandths of a radian. sin and cos are tabulated in thousandths  *)
(* at the angles the model uses, and their products are rounded down.       *)

\* std::f32::consts::FRAC_PI_4, in thousandths of a radian
FRAC_PI_4 == 785

CameraState(position, target, fov) ==
    [position |-> position, target |-> target, fov |-> fov]

\* CameraState::default
CameraState_default == CameraState(Vec3(0, 0, 5), Vec3(0, 0, 0), FRAC_PI_4)

\* cos and sin of 0..8 radians, in thousandths
CosTable == <<1000, 540, -416, -990, -654, 284, 960, 754, -146>>
SinTable == <<0, 841, 909, 141, -757, -959, -279, 657, 989>>
MaxAngle == Len(CosTable) - 1
CosMilli(angle) == IF angle >= 0 THEN CosTable[angle + 1] ELSE CosTable[1 - angle]
SinMilli(angle) == IF angle >= 0 THEN SinTable[angle + 1] ELSE 0 - SinTable[1 - angle]

\* cos(2 pi * 1.3 * k) for a whole number k of turns, in thousandths
ShakeCos == <<1000, -309, -809, 809, 309, -1000, 309, 809, -809, -309>>

\* Vec3::normalize_or_zero, on the vectors along one axis and the zero vector
Sign(x) == IF x > 0 THEN 1 ELSE IF x < 0 THEN -1 ELSE 0
AxisAligned(v) == Cardinality({i \in 1..3 : v[i] # 0}) <= 1
normalize_or_zero(v) == <<Sign(v[1]), Sign(v[2]), Sign(v[3])>>

\* CameraState::forward: (self.target - self.position).normalize_or_zero()
view(state) == VecAdd(state.target, VecScale(state.position, -1))
forward(state) == normalize_or_zero(view(state))

\* CameraWork
Static == [kind |-> "Static"]
Pan(speed) == [kind |-> "Pan", speed |-> speed]
Tilt(speed) == [kind |-> "Tilt", speed |-> speed]
Dolly(speed) == [kind |-> "Dolly", speed |-> speed]
Zoom(target_fov) == [kind |-> "Zoom", target_fov |-> target_fov]
Orbit(radius, speed) == [kind |-> "Orbit", radius |-> radius, speed |-> speed]
Shake(amplitude, frequency) ==
    [kind |-> "Shake", amplitude |-> amplitude, frequency |-> frequency]

\* CameraTrack::default: every channel holds one sample at time 0.
CameraTrack_default ==
    [position_timeline |->
         [name \in {"position.x", "position.y", "position.z"} |->
              <<Keyframe(0, IF name = "position.z" THEN 5 ELSE 0)>>],
     target_timeline |->
         [name \in {"target.x", "target.y", "target.z"} |-> <<Keyframe(0, 0)>>],
     fov_track |-> <<Keyframe(0, FRAC_PI_4)>>,
     shake_amplitude |-> 0,
     shake_frequency |-> 0]

\* The loop of add_keyframe over the tracks of one timeline: a track whose
\* name is names[i] receives the sample vals[i].
AddToTimeline(timeline, names, vals, time) ==
    [name \in DOMAIN timeline |->
        IF \E i \in 1..3 : names[i] = name
        THEN Track_add_keyframe(timeline[name],
                 Keyframe(time, vals[CHOOSE i \in 1..3 : names[i] = name]))
        ELSE timeline[name]]

\* CameraTrack::add_keyframe
add_keyframe(self, time, position, target, fov) ==
    [self EXCEPT
        !.position_timeline =
            AddToTimeline(@, <<"position.x", "position.y", "position.z">>, position, time),
        !.target_timeline =
            AddToTimeline(@, <<"target.x", "target.y", "target.z">>, target, time),
        !.fov_track = Track_add_keyframe(@, Keyframe(time, fov))]

\* Faulty variant: a shake that also moves the camera along z.
ShakenInDepth(self, position, time) ==
    LET k == (time * self.shake_frequency) % 10
    IN  Vec3(position[1],
             position[2] + (ShakeCos[k + 1] * self.shake_amplitude * 7) \div 10000,
             position[3] + (ShakeCos[k + 1] * self.shake_amplitude * 7) \div 10000)

\* The shake of evaluate at a time where time * frequency is a whole number k
\* of turns: sin(2 pi k) is 0, so shake_x is 0, and shake_y is
\* cos(2 pi * 1.3 * k) * amplitude * 0.7.
Shaken(self, position, time) ==
    LET k == (time * self.shake_frequency) % 10
    IN  Vec3(position[1],
             position[2] + (ShakeCos[k + 1] * self.shake_amplitude * 7) \div 10000,
             position[3])

\* CameraTrack::evaluate
CameraTrack_evaluate(self, time) ==
    LET position ==
            Vec3(unwrap_or(get_value(self.position_timeline, "position.x", time), 0),
                 unwrap_or(get_value(self.position_timeline, "position.y", time), 0),
                 unwrap_or(get_value(self.position_timeline, "position.z", time), 5))
    IN  CameraState(
            IF self.shake_amplitude > 0 THEN Shaken(self, position, time) ELSE position,
            Vec3(unwrap_or(get_value(self.target_timeline, "target.x", time), 0),
                 unwrap_or(get_value(self.target_timeline, "target.y", time), 0),
                 unwrap_or(get_value(self.target_timeline, "target.z", time), 0)),
            Track_evaluate(self.fov_track, time))

\* Orbit: t = start + (duration * i as f32 / steps as f32), steps = 8, for the
\* durations that are multiples of 8.
OrbitTime(start, duration, i) == start + (duration * i) \div 8

\* Orbit: pos = current.target + Vec3::new(radius * angle.cos(),
\* current.position.y, radius * angle.sin())
OrbitPosition(current, radius, angle) ==
    VecAdd(current.target,
           Vec3((radius * CosMilli(angle)) \div 1000,
                current.position[2],
                (radius * SinMilli(angle)) \div 1000))

\* Orbit: the loop for i in 0..=steps, from step i on.
RECURSIVE OrbitSteps(_, _, _, _, _, _)
OrbitSteps(self, current, work, start, duration, i) ==
    IF i > 8 THEN self
    ELSE LET t == OrbitTime(start, duration, i)
             angle == work.speed * (t - start)
         IN  OrbitSteps(
                 add_keyframe(self, t, OrbitPosition(current, work.radius, angle),
                              current.target, current.fov),
                 current, work, start, duration, i + 1)

\* Faulty variant: Pan that moves the position and leaves the target.
PanEndTargetFixed(current, speed, duration) ==
    CameraState(VecAdd(current.position, Vec3(speed * duration, 0, 0)),
                current.target, current.fov)

\* Pan: the state keyed at `end`.
PanEnd(current, speed, duration) ==
    CameraState(VecAdd(current.position, Vec3(speed * duration, 0, 0)),
                VecAdd(current.target, Vec3(speed * duration, 0, 0)),
                current.fov)

\* Faulty variant: Tilt that lifts the position together with the target.
TiltEndLifted(current, speed, duration) ==
    CameraState(VecAdd(current.position, Vec3(0, speed * duration, 0)),
                VecAdd(current.target, Vec3(0, speed * duration, 0)),
                current.fov)

\* Tilt: the state keyed at `end`.
TiltEnd(current, speed, duration) ==
    CameraState(current.position,
                VecAdd(current.target, Vec3(0, speed * duration, 0)),
                current.fov)

\* add_keyframe of a whole CameraState
KeyState(self, time, state) == add_keyframe(self, time, state.position, state.target, state.fov)

\* CameraTrack::apply_preset
apply_preset(self, work, start, duration) ==
    LET end == start + duration
        current == CameraTrack_evaluate(self, start)
        keyed == KeyState(self, start, current)
    IN  CASE work.kind = "Static" -> self
          [] work.kind = "Pan" -> KeyState(keyed, end, PanEnd(current, work.speed, duration))
          [] work.kind = "Tilt" -> KeyState(keyed, end, TiltEnd(current, work.speed, duration))
          [] work.kind = "Dolly" ->
                 KeyState(keyed, end,
                     CameraState(VecAdd(current.position,
                                        VecScale(forward(current), work.speed * duration)),
                                 current.target, current.fov))
          [] work.kind = "Zoom" ->
                 KeyState(keyed, end,
                     CameraState(current.position, current.target, work.target_fov))
          [] work.kind = "Orbit" -> OrbitSteps(self, current, work, start, duration, 0)
          [] work.kind = "Shake" ->
                 [self EXCEPT !.shake_amplitude = work.amplitude,
                              !.shake_frequency = work.frequency]

----------------------------------------------------------------------------
(* Director: cuts *)

\* Cut::new(name, start, end): the time window and the default camera.
Cut(start, end) ==
    [start_time |-> start, end_time |-> end, camera |-> CameraTrack_default]

\* Cut::with_camera
with_camera(cut, camera_track) == [cut EXCEPT !.camera = camera_track]

\* Cut::duration
duration(cut) == cut.end_time - cut.start_time

\* Faulty variant: contains_time with a closed window, time <= end_time.
contains_time_closed(cut, time) == time >= cut.start_time /\ time <= cut.end_time

\* Cut::contains_time: half-open window, start <= time < end.
contains_time(cut, time) == time >= cut.start_time /\ time < cut.end_time

\* f32::partial_cmp on finite values.
partial_cmp(a, b) == IF a < b THEN "Less" ELSE IF a > b THEN "Greater" ELSE "Equal"

----------------------------------------------------------------------------
(* slice::binary_search_by, on the sequence of orderings the comparator     *)
(* yields for each element (0-based positions, as in Rust). The standard    *)
(* library leaves open which match is returned when several elements        *)
(* compare Equal; both shipped loops are modelled, and a caller sees either.*)

RECURSIVE BsClassicLoop(_, _, _, _)
BsClassicLoop(ords, left, right, size) ==
    IF left < right
    THEN LET mid == left + (size \div 2)
             cmp == ords[mid + 1]
         IN  IF cmp = "Less" THEN BsClassicLoop(ords, mid + 1, right, right - (mid + 1))
             ELSE IF cmp = "Greater" THEN BsClassicLoop(ords, left, mid, mid - left)
             ELSE [found |-> TRUE, pos |-> mid]
    ELSE [found |-> FALSE, pos |-> left]

\* The loop of Rust 1.52 to 1.81.
BsClassic(ords) == BsClassicLoop(ords, 0, Len(ords), Len(ords))

RECURSIVE BsHalvingLoop(_, _, _)
BsHalvingLoop(ords, base, size) ==
    IF size > 1
    THEN LET half == size \div 2
             mid == base + half
         IN  BsHalvingLoop(ords, IF ords[mid + 1] = "Greater" THEN base ELSE mid, size - half)
    ELSE LET cmp == ords[base + 1]
         IN  IF cmp = "Equal" THEN [found |-> TRUE, pos |-> base]
             ELSE [found |-> FALSE, pos |-> base + (IF cmp = "Less" THEN 1 ELSE 0)]

\* The loop of Rust 1.82 and later.
BsHalving(ords) ==
    IF Len(ords) = 0 THEN [found |-> FALSE, pos |-> 0]
    ELSE BsHalvingLoop(ords, 0, Len(ords))

binary_search_by(ords) == {BsClassic(ords), BsHalving(ords)}

\* Vec::insert(pos, x), pos 0-based.
VecInsert(v, pos, x) == SubSeq(v, 1, pos) \o <<x>> \o SubSeq(v, pos + 1, Len(v))

----------------------------------------------------------------------------
(* Director::add_cut *)

\* Faulty variant: the comparator of add_cut with its operands swapped.
AddCutOrdsSwapped(cuts, start) ==
    [i \in 1..Len(cuts) |-> partial_cmp(start, cuts[i][2].start_time)]

\* The comparator of add_cut applied to every stored cut.
AddCutOrds(cuts, start) ==
    [i \in 1..Len(cuts) |-> partial_cmp(cuts[i][2].start_time, start)]

\* Faulty variant: add_cut as an append (push) instead of an ordered insert.
AddCutPositionsAppend(cuts, start) == {Len(cuts)}

\* The positions add_cut may insert at: Ok(pos) and Err(pos) both give pos.
AddCutPositions(cuts, start) ==
    {r.pos : r \in binary_search_by(AddCutOrds(cuts, start))}

\* The Directors add_cut(cut) may leave, from the cut sequence `cuts` and the
\* id counter `nid`.
AddCutResults(cuts, nid, cut) ==
    {[sorted_cuts |-> VecInsert(cuts, pos, <<nid, cut>>), next_id |-> nid + 1] :
        pos \in AddCutPositions(cuts, cut.start_time)}

\* One more evaluation since the remembered one, counted up to 2.
Bump(e) ==
    IF e = None THEN None
    ELSE Some([e[1] EXCEPT !.since = IF @ < 2 THEN @ + 1 ELSE @])

\* A mutation of a receiver ends what is remembered of its evaluations.
Forget(e, receiver) == IF e # None /\ e[1].receiver = receiver THEN None ELSE e

add_cut(cut) ==
    /\ Len(sorted_cuts) < MaxCuts
    /\ \E d \in AddCutResults(sorted_cuts, next_id, cut) :
          /\ sorted_cuts' = d.sorted_cuts
          /\ next_id' = d.next_id
    /\ issued' = Append(issued, cut)
    /\ returned' = Append(returned, next_id)
    /\ query' = None
    /\ active' = None
    /\ dir_call' = None
    /\ dir_out' = None
    /\ earlier' = Forget(earlier, "Director")
    /\ UNCHANGED notDirVars

----------------------------------------------------------------------------
(* Director::find_active_cut *)

\* Faulty variant: the comparator of find_active_cut with a strict start_time < time.
FindOrdsStrict(cuts, time) ==
    [i \in 1..Len(cuts) |->
        IF cuts[i][2].start_time < time THEN "Less" ELSE "Greater"]

\* The comparator of find_active_cut: never Equal.
FindOrds(cuts, time) ==
    [i \in 1..Len(cuts) |->
        IF cuts[i][2].start_time <= time THEN "Less" ELSE "Greater"]

\* Faulty variant: the candidate taken at the insertion point itself instead
\* of the entry before it.
FindFromAtInsertionPoint(cuts, time, idx) ==
    IF idx < Len(cuts) /\ contains_time(cuts[idx + 1][2], time)
    THEN Some(cuts[idx + 1])
    ELSE IF Len(cuts) > 0 /\ contains_time(cuts[1][2], time)
    THEN Some(cuts[1])
    ELSE None

\* The candidate check (idx - 1), then the index-0 check, then None.
FindFrom(cuts, time, idx) ==
    IF idx > 0 /\ contains_time(cuts[idx][2], time)
    THEN Some(cuts[idx])
    ELSE IF Len(cuts) > 0 /\ contains_time(cuts[1][2], time)
    THEN Some(cuts[1])
    ELSE None

\* What find_active_cut(time) may return on the cut sequence `cuts`.
find_active_cut(cuts, time) ==
    {FindFrom(cuts, time, r.pos) : r \in binary_search_by(FindOrds(cuts, time))}

\* find_active_cut with the index-0 check left out: the candidate check only.
CandidateOnly(cuts, time, idx) ==
    IF idx > 0 /\ contains_time(cuts[idx][2], time) THEN Some(cuts[idx]) ELSE None

find_active_cut_without_fallback(cuts, time) ==
    {CandidateOnly(cuts, time, r.pos) : r \in binary_search_by(FindOrds(cuts, time))}

FindActiveCut(time) ==
    /\ \E r \in find_active_cut(sorted_cuts, time) : active' = r
    /\ query' = Some(time)
    /\ UNCHANGED <<sorted_cuts, next_id, issued, returned, dir_call, dir_out, earlier>>
    /\ UNCHANGED notDirVars

----------------------------------------------------------------------------
(* Director::get_cut, Director::evaluate *)

\* Faulty variant: get_cut taking the id for the storage index.
get_cut_at_index(cuts, id) ==
    IF id < Len(cuts) THEN Some(cuts[id + 1][2]) ELSE None

\* Director::get_cut(id): the first entry whose id is `id`.
get_cut(cuts, id) ==
    LET hits == {i \in 1..Len(cuts) : cuts[i][1] = id}
    IN  IF hits = {} THEN None
        ELSE Some(cuts[CHOOSE i \in hits : \A j \in hits : i <= j][2])

GetCut(id) ==
    /\ dir_call' = Some(<<"get_cut", id>>)
    /\ dir_out' = get_cut(sorted_cuts, id)
    /\ UNCHANGED <<sorted_cuts, next_id, issued, returned, query, active, earlier>>
    /\ UNCHANGED notDirVars

\* get_cut_mut(id) followed by an assignment to the pub field `start_time` of
\* the cut it returns; nothing happens for an id the Director does not hold.
SetStartTime(id, start) ==
    /\ \E i \in 1..Len(sorted_cuts) :
          /\ sorted_cuts[i][1] = id
          /\ \A j \in 1..(i - 1) : sorted_cuts[j][1] # id
          /\ sorted_cuts[i][2].start_time # start
          /\ sorted_cuts' = [sorted_cuts EXCEPT ![i][2].start_time = start]
    /\ query' = None
    /\ active' = None
    /\ dir_call' = None
    /\ dir_out' = None
    /\ earlier' = Forget(earlier, "Director")
    /\ UNCHANGED <<next_id, issued, returned>>
    /\ UNCHANGED notDirVars

DirectorState(time, active_cut, camera_state) ==
    [time |-> time, active_cut |-> active_cut, camera_state |-> camera_state]

\* Faulty variant: the camera of the active cut evaluated at the global time.
StateOfGlobalTime(found, time) ==
    IF found # None
    THEN DirectorState(time, Some(found[1][1]),
                       CameraTrack_evaluate(found[1][2].camera, time))
    ELSE DirectorState(time, None, CameraState_default)

\* The match of Director::evaluate on what find_active_cut returned.
StateOf(found, time) ==
    IF found # None
    THEN DirectorState(time, Some(found[1][1]),
             CameraTrack_evaluate(found[1][2].camera, time - found[1][2].start_time))
    ELSE DirectorState(time, None, CameraState_default)

\* What Director::evaluate(scene, time) may return on the cut sequence `cuts`.
Director_evaluate(cuts, time) ==
    {StateOf(found, time) : found \in find_active_cut(cuts, time)}

DirectorEvaluate(time) ==
    /\ dir_call' = Some(<<"evaluate", time>>)
    /\ \E r \in Director_evaluate(sorted_cuts, time) : dir_out' = Some(r)
    /\ earlier' = Bump(earlier)
    /\ UNCHANGED <<sorted_cuts, next_id, issued, returned, query, active>>
    /\ UNCHANGED notDirVars

----------------------------------------------------------------------------
(* Director::new *)

Director_new ==
    /\ sorted_cuts = <<>>
    /\ next_id = 0
    /\ issued = <<>>
    /\ returned = <<>>
    /\ query = None
    /\ active = None
    /\ dir_call = None
    /\ dir_out = None

----------------------------------------------------------------------------
(* SceneGraph: shapes. An SdfNode is an opaque value of the implicit-surface *)
(* library; the model keeps its constructor and operands as a tuple.         *)

\* SdfNode::sphere(radius)
Sphere(r) == <<"Sphere", r>>

\* SdfNode::box3d(1.0, 1.0, 1.0)
Box3d == <<"Box3d", 1, 1, 1>>

\* a.union(b)
Union(a, b) == <<"Union", a, b>>

\* AnimatedSdf::new(base, timeline).evaluate_at(time)
Animated(base, time) == <<"Animated", base, time>>

----------------------------------------------------------------------------
(* Actor *)

\* Actor::new(name, sdf) with the optional with_timeline and with_parent.
Actor(sdf, timeline, parent) ==
    [base_sdf |-> sdf, timeline |-> timeline, local_transform |-> ActorTransform_default,
     parent |-> parent, visible |-> TRUE]

\* Actor::with_transform
with_transform(actor, transform) == [actor EXCEPT !.local_transform = transform]

\* Actor::with_parent
with_parent(actor, parent) == [actor EXCEPT !.parent = Some(parent)]

\* Actor::evaluate_sdf
evaluate_sdf(actor, time) ==
    IF actor.timeline # None THEN Animated(actor.base_sdf, time)
    ELSE actor.base_sdf

----------------------------------------------------------------------------
(* SceneGraph *)

SceneGraph_new ==
    /\ actors = <<>>
    /\ actor_next_id = 0
    /\ root_actors = <<>>
    /\ scene_time = None
    /\ scene_out = None
    /\ added = <<>>
    /\ world = None

\* Vec::resize_with(n, || None) when n exceeds the length.
ResizeWithNone(v, n) ==
    IF n > Len(v) THEN v \o [i \in 1..(n - Len(v)) |-> None] ELSE v

\* Faulty variant: add_actor without `self.next_id += 1`.
AddActorResultSameId(sg, actor) ==
    LET id == sg.next_id
        idx == id
    IN  [next_id |-> sg.next_id,
         root_actors |-> IF actor.parent = None THEN Append(sg.root_actors, id)
                                                ELSE sg.root_actors,
         actors |-> [ResizeWithNone(sg.actors, idx + 1) EXCEPT ![idx + 1] = Some(actor)]]

\* The SceneGraph add_actor(actor) leaves, from the SceneGraph `sg`.
AddActorResult(sg, actor) ==
    LET id == sg.next_id
        idx == id
    IN  [next_id |-> sg.next_id + 1,
         root_actors |-> IF actor.parent = None THEN Append(sg.root_actors, id)
                                                ELSE sg.root_actors,
         actors |-> [ResizeWithNone(sg.actors, idx + 1) EXCEPT ![idx + 1] = Some(actor)]]

\* The SceneGraph held in the variables.
TheSceneGraph ==
    [actors |-> actors, next_id |-> actor_next_id, root_actors |-> root_actors]

\* The Director held in the variables.
TheDirector == [sorted_cuts |-> sorted_cuts, next_id |-> next_id]

add_actor(actor) ==
    /\ Len(actors) < MaxActors
    /\ LET sg == AddActorResult(TheSceneGraph, actor)
       IN  /\ actor_next_id' = sg.next_id
           /\ root_actors' = sg.root_actors
           /\ actors' = sg.actors
    /\ added' = Append(added, <<actor_next_id, actor>>)
    /\ scene_time' = None
    /\ scene_out' = None
    /\ world' = None
    /\ earlier' = Forget(earlier, "SceneGraph")
    /\ UNCHANGED notSceneVars

\* SceneGraph::get_actor
get_actor(id) == IF id + 1 \in 1..Len(actors) THEN actors[id + 1] ELSE None

\* parent_world.combine(&actor.local_transform), once the parent's call returns.
ParentFirst(parent_world, local) ==
    IF parent_world = None THEN None ELSE Some(combine(parent_world[1], local))

\* self.actors.get(idx).and_then(|a| a.as_ref()) on the slots `slots`.
SlotAt(slots, id) == IF id + 1 \in 1..Len(slots) THEN slots[id + 1] ELSE None

\* get_world_transform(id) on the slots `slots`: Some(transform) when the call
\* returns, None when it does not. A call nested deeper than there are slots
\* has come back to an actor it is already computing, and the recursion has
\* no end.
RECURSIVE WorldTransform(_, _, _)
WorldTransform(slots, id, depth) ==
    IF SlotAt(slots, id) = None THEN Some(ActorTransform_default)
    ELSE IF SlotAt(slots, id)[1].parent = None THEN Some(SlotAt(slots, id)[1].local_transform)
    ELSE IF depth >= Len(slots) THEN None
    ELSE ParentFirst(WorldTransform(slots, SlotAt(slots, id)[1].parent[1], depth + 1),
                     SlotAt(slots, id)[1].local_transform)

get_world_transform(slots, id) == WorldTransform(slots, id, 0)

GetWorldTransform(id) ==
    /\ world' = Some([id |-> id, out |-> get_world_transform(actors, id)])
    /\ UNCHANGED <<actors, actor_next_id, root_actors, scene_time, scene_out, added, earlier>>
    /\ UNCHANGED notSceneVars

\* get_actor_mut(id) followed by an assignment to the pub field `visible`.
SetVisible(id, v) ==
    /\ get_actor(id) # None
    /\ actors[id + 1][1].visible # v
    /\ actors' = [actors EXCEPT ![id + 1] = Some([@[1] EXCEPT !.visible = v])]
    /\ scene_time' = None
    /\ scene_out' = None
    /\ earlier' = Forget(earlier, "SceneGraph")
    /\ UNCHANGED <<actor_next_id, root_actors, added, world>>
    /\ UNCHANGED notSceneVars

\* get_actor_mut(id) followed by an assignment to the pub field `parent`;
\* nothing happens for an id the SceneGraph does not hold.
SetParent(id, parent) ==
    /\ get_actor(id) # None
    /\ actors[id + 1][1].parent # parent
    /\ actors' = [actors EXCEPT ![id + 1] = Some([@[1] EXCEPT !.parent = parent])]
    /\ scene_time' = None
    /\ scene_out' = None
    /\ world' = None
    /\ earlier' = Forget(earlier, "SceneGraph")
    /\ UNCHANGED <<actor_next_id, root_actors, added>>
    /\ UNCHANGED notSceneVars

\* The loop of evaluate_scene that fills `nodes`, from slot i on.
RECURSIVE SceneNodes(_, _, _)
SceneNodes(slots, i, time) ==
    IF i > Len(slots) THEN <<>>
    ELSE IF slots[i] # None /\ slots[i][1].visible
    THEN <<evaluate_sdf(slots[i][1], time)>> \o SceneNodes(slots, i + 1, time)
    ELSE SceneNodes(slots, i + 1, time)

\* Faulty variant: the fold with the operands of union swapped.
RECURSIVE UnionFoldSwapped(_, _)
UnionFoldSwapped(result, nodes) ==
    IF nodes = <<>> THEN result
    ELSE UnionFoldSwapped(Union(Head(nodes), result), Tail(nodes))

\* for node in nodes { result = result.union(node) }
RECURSIVE UnionFold(_, _)
UnionFold(result, nodes) ==
    IF nodes = <<>> THEN result
    ELSE UnionFold(Union(result, Head(nodes)), Tail(nodes))

\* SceneGraph::evaluate_scene
evaluate_scene(slots, time) ==
    LET nodes == SceneNodes(slots, 1, time)
    IN  IF Len(nodes) = 0 THEN Sphere(1)
        ELSE IF Len(nodes) = 1 THEN nodes[1]
        ELSE UnionFold(Head(nodes), Tail(nodes))

EvaluateScene(time) ==
    /\ scene_out' = Some(evaluate_scene(actors, time))
    /\ scene_time' = Some(time)
    /\ earlier' = Bump(earlier)
    /\ UNCHANGED <<actors, actor_next_id, root_actors, added, world>>
    /\ UNCHANGED notSceneVars

----------------------------------------------------------------------------
(* Bytes and fixed-width integers. A u32 is kept as its four little-endian   *)
(* bytes wherever all 32 bits matter (the CRC): TLC's integers are signed    *)
(* 32-bit.                                                                   *)

Pow2(i) == 2 ^ i

\* a ^ b on u8, bit by bit.
XorBits(a, b) ==
    LET bit(i) == (((a \div Pow2(i)) + (b \div Pow2(i))) % 2) * Pow2(i)
    IN  bit(0) + bit(1) + bit(2) + bit(3) + bit(4) + bit(5) + bit(6) + bit(7)

XorTable == [a \in 0..255 |-> [b \in 0..255 |-> XorBits(a, b)]]

\* a ^ b on u8.
Xor8(a, b) == XorTable[a][b]

\* a ^ b on u32.
XorU32(a, b) == <<Xor8(a[1], b[1]), Xor8(a[2], b[2]), Xor8(a[3], b[3]), Xor8(a[4], b[4])>>

\* c >> 1 on u32.
Shr1(c) ==
    <<(c[1] \div 2) + (c[2] % 2) * 128, (c[2] \div 2) + (c[3] % 2) * 128,
      (c[3] \div 2) + (c[4] % 2) * 128, c[4] \div 2>>

\* u16::to_le_bytes
U16ToLe(n) == <<n % 256, (n \div 256) % 256>>

\* u16::from_le_bytes
U16FromLe(b) == b[1] + 256 * b[2]

\* (n as u32).to_le_bytes(): the bits above the 32nd are dropped.
U32ToLe(n) == <<n % 256, (n \div 256) % 256, (n \div 65536) % 256, (n \div 16777216) % 256>>

\* u32::from_le_bytes, for values below 2^31.
U32FromLe(b) == b[1] + 256 * b[2] + 65536 * b[3] + 16777216 * b[4]

----------------------------------------------------------------------------
(* crc32fast::hash: the IEEE CRC-32 (reflected polynomial 0xEDB88320,        *)
(* initial value and final xor 0xFFFFFFFF), computed bytewise by table.      *)

CRC_POLY == <<32, 131, 184, 237>>
U32_MAX == <<255, 255, 255, 255>>

CrcBit(c) == IF c[1] % 2 = 1 THEN XorU32(Shr1(c), CRC_POLY) ELSE Shr1(c)

CrcTable ==
    [b \in 0..255 |->
        CrcBit(CrcBit(CrcBit(CrcBit(CrcBit(CrcBit(CrcBit(CrcBit(<<b, 0, 0, 0>>))))))))]

\* crc = table[(crc ^ byte) & 0xFF] ^ (crc >> 8)
CrcUpdate(c, byte) ==
    LET t == CrcTable[Xor8(c[1], byte)]
    IN  <<Xor8(c[2], t[1]), Xor8(c[3], t[2]), Xor8(c[4], t[3]), t[4]>>

\* The update applied to bytes[lo..hi] in order. The range is halved, and the
\* left half's value is bound before the right half starts, which keeps the
\* evaluation shallow.
RECURSIVE CrcFold(_, _, _, _)
CrcFold(c, bytes, lo, hi) ==
    IF lo > hi THEN c
    ELSE IF lo = hi THEN CrcUpdate(c, bytes[lo])
    ELSE LET mid == (lo + hi) \div 2
         IN  CHOOSE r \in {CrcFold(left, bytes, mid + 1, hi) :
                              left \in {CrcFold(c, bytes, lo, mid)}} : TRUE

\* crc32fast::hash(bytes), as the little-endian bytes of the u32.
crc32(bytes) == XorU32(CrcFold(U32_MAX, bytes, 1, Len(bytes)), U32_MAX)

----------------------------------------------------------------------------
(* f32 values of the model are integers of magnitude below 2^24; their       *)
(* bytes are the IEEE-754 binary32 encoding.                                 *)

RECURSIVE Log2Floor(_)
Log2Floor(n) == IF n < 2 THEN 0 ELSE 1 + Log2Floor(n \div 2)

\* f32::to_le_bytes
F32ToLe(x) ==
    LET sign == IF x < 0 THEN 1 ELSE 0
        mag == IF x < 0 THEN -x ELSE x
        e == Log2Floor(mag)
        m == (mag - Pow2(e)) * Pow2(23 - e)
        biased == 127 + e
    IN  IF mag = 0 THEN <<0, 0, 0, 0>>
        ELSE <<m % 256, (m \div 256) % 256,
               ((m \div 65536) % 128) + (biased % 2) * 128,
               (biased \div 2) + sign * 128>>

\* f32::from_le_bytes; a bit pattern that is no integer of the model (a
\* fraction, NaN, an infinity) is kept as its bits.
F32FromLe(b) ==
    LET sign == b[4] \div 128
        biased == (b[4] % 128) * 2 + (b[3] \div 128)
        m == (b[3] % 128) * 65536 + b[2] * 256 + b[1]
        e == biased - 127
    IN  IF biased = 0 /\ m = 0 /\ sign = 0 THEN 0
        ELSE IF biased \in 127..150 /\ m % Pow2(23 - e) = 0
        THEN (IF sign = 1 THEN -1 ELSE 1) * (Pow2(e) + (m \div Pow2(23 - e)))
        ELSE <<"bits", b>>

----------------------------------------------------------------------------
(* EpisodePackage. The model keeps the fields the container's contract is    *)
(* stated on: the metadata, the actor slots and the cut sequence.            *)

\* EpisodeMetadata::new(title, episode_number, duration)
EpisodeMetadata(title, episode_number, duration_seconds) ==
    [title |-> title, episode_number |-> episode_number,
     duration_seconds |-> duration_seconds, resolution |-> <<1920, 1080>>]

\* EpisodePackage::new(metadata, scene_graph, director, shading)
EpisodePackage(metadata, scene_graph, director_) ==
    [metadata |-> metadata, scene_graph |-> scene_graph, director |-> director_]

\* SceneGraph::actor_count
actor_count(slots) == Cardinality({i \in 1..Len(slots) : slots[i] # None})

\* Director::cut_count
cut_count(cuts) == Len(cuts)

\* f32::max
F32Max(a, b) == IF a >= b THEN a ELSE b

\* Director::duration: the fold of f32::max over the end times, from 0.0.
RECURSIVE DurationFold(_, _, _)
DurationFold(acc, cuts, i) ==
    IF i > Len(cuts) THEN acc
    ELSE DurationFold(F32Max(acc, cuts[i][2].end_time), cuts, i + 1)

\* Faulty variant: the fold started from the first end time instead of 0.0.
Director_duration_of_ends(cuts) ==
    IF Len(cuts) = 0 THEN 0 ELSE DurationFold(cuts[1][2].end_time, cuts, 2)

Director_duration(cuts) == DurationFold(0, cuts, 1)

----------------------------------------------------------------------------
(* bincode::serialize: fixed-width little-endian integers, u64 length        *)
(* prefixes, one tag byte for Option and bool, a u32 variant index for an    *)
(* enum, struct fields in declaration order.                                 *)

RECURSIVE Flatten(_)
Flatten(ss) == IF ss = <<>> THEN <<>> ELSE Head(ss) \o Flatten(Tail(ss))

EncU64(n) == U32ToLe(n) \o <<0, 0, 0, 0>>

EncString(str) == EncU64(Len(str)) \o str

EncBool(v) == <<IF v THEN 1 ELSE 0>>

\* SdfNode: variant index, then the variant's f32 fields.
EncSdf(node) ==
    IF node[1] = "Sphere" THEN U32ToLe(0) \o F32ToLe(node[2])
    ELSE U32ToLe(1) \o F32ToLe(node[2]) \o F32ToLe(node[3]) \o F32ToLe(node[4])

\* Option<Timeline>: the tag; the timeline's content is the keyframe
\* library's own.
EncTimeline(o) == IF o = None THEN <<0>> ELSE <<1>>

\* Option<ActorId>
EncOptionId(o) == IF o = None THEN <<0>> ELSE <<1>> \o U32ToLe(o[1])

\* Vec3 and Quat: their f32 components in order.
EncFloats(v) == Flatten([i \in 1..Len(v) |-> F32ToLe(v[i])])

EncTransform(t) == EncFloats(t.position) \o EncFloats(t.rotation) \o EncFloats(t.scale)

EncActor(a) ==
    EncSdf(a.base_sdf) \o EncTimeline(a.timeline) \o EncTransform(a.local_transform)
        \o EncOptionId(a.parent) \o EncBool(a.visible)

\* Option<Actor>
EncSlot(slot) == IF slot = None THEN <<0>> ELSE <<1>> \o EncActor(slot[1])

EncSceneGraph(sg) ==
    EncU64(Len(sg.actors)) \o Flatten([i \in 1..Len(sg.actors) |-> EncSlot(sg.actors[i])])
        \o U32ToLe(sg.next_id)
        \o EncU64(Len(sg.root_actors))
        \o Flatten([i \in 1..Len(sg.root_actors) |-> U32ToLe(sg.root_actors[i])])

\* Faulty variant: the entry with end_time written before start_time.
EncCutEntrySwapped(e) ==
    U32ToLe(e[1]) \o F32ToLe(e[2].end_time) \o F32ToLe(e[2].start_time)

\* (CutId, Cut)
EncCutEntry(e) == U32ToLe(e[1]) \o F32ToLe(e[2].start_time) \o F32ToLe(e[2].end_time)

EncDirector(d) ==
    EncU64(Len(d.sorted_cuts))
        \o Flatten([i \in 1..Len(d.sorted_cuts) |-> EncCutEntry(d.sorted_cuts[i])])
        \o U32ToLe(d.next_id)

EncMetadata(m) ==
    EncString(m.title) \o U32ToLe(m.episode_number) \o F32ToLe(m.duration_seconds)
        \o U32ToLe(m.resolution[1]) \o U32ToLe(m.resolution[2])

\* bincode::serialize(episode)
bincode_serialize(pkg) ==
    EncMetadata(pkg.metadata) \o EncSceneGraph(pkg.scene_graph) \o EncDirector(pkg.director)

----------------------------------------------------------------------------
(* bincode::deserialize: a cursor over the body; every read may fail. A      *)
(* decoder takes the reader's state (ok, the position, the values read so    *)
(* far) and returns it with one more value, or Fail.                         *)

Fail == [ok |-> FALSE, pos |-> 0, vals |-> <<>>]
Begin == [ok |-> TRUE, pos |-> 1, vals |-> <<>>]

\* The state at the start of a struct, a Vec or an Option: no field read yet.
Enter(s) == [ok |-> s.ok, pos |-> s.pos, vals |-> <<>>]

\* The value v, which took n bytes, read in state s.
Push(s, v, n) == [ok |-> TRUE, pos |-> s.pos + n, vals |-> Append(s.vals, v)]

\* The value v, completed by the inner reads r, read in state s.
Done(s, r, v) == [ok |-> TRUE, pos |-> r.pos, vals |-> Append(s.vals, v)]

Has(b, p, n) == p + n - 1 <= Len(b)
Take(b, p, n) == SubSeq(b, p, p + n - 1)

\* A u32 of 2^31 or more is kept as the i32 of the same bits.
DecU32(b, s) ==
    IF ~(s.ok /\ Has(b, s.pos, 4)) THEN Fail
    ELSE IF b[s.pos + 3] < 128 THEN Push(s, U32FromLe(Take(b, s.pos, 4)), 4)
    ELSE Push(s, U32FromLe(<<b[s.pos], b[s.pos + 1], b[s.pos + 2], 0>>)
                    + (b[s.pos + 3] - 256) * 16777216, 4)

DecF32(b, s) ==
    IF s.ok /\ Has(b, s.pos, 4) THEN Push(s, F32FromLe(Take(b, s.pos, 4)), 4) ELSE Fail

\* A u64 length; one of 2^31 or more exceeds any input.
DecLen(b, s) ==
    IF s.ok /\ Has(b, s.pos, 8) /\ Take(b, s.pos + 4, 4) = <<0, 0, 0, 0>>
           /\ b[s.pos + 3] < 128
    THEN Push(s, U32FromLe(Take(b, s.pos, 4)), 8)
    ELSE Fail

StringBytes(b, s, n) ==
    IF n.ok /\ Has(b, n.pos, n.vals[1])
    THEN Push(s, Take(b, n.pos, n.vals[1]), 8 + n.vals[1])
    ELSE Fail

DecString(b, s) == StringBytes(b, s, DecLen(b, Enter(s)))

\* A tag byte of an Option or a bool: 0 or 1.
DecTag(b, s) ==
    IF s.ok /\ Has(b, s.pos, 1) /\ b[s.pos] \in {0, 1} THEN Push(s, b[s.pos], 1) ELSE Fail

BoolDone(s, t) == IF t.ok THEN Done(s, t, t.vals[1] = 1) ELSE Fail

DecBool(b, s) == BoolDone(s, DecTag(b, Enter(s)))

SphereDone(s, r) == IF r.ok THEN Done(s, r, <<"Sphere", r.vals[2]>>) ELSE Fail

Box3dDone(s, r) ==
    IF r.ok THEN Done(s, r, <<"Box3d", r.vals[2], r.vals[3], r.vals[4]>>) ELSE Fail

SdfVariant(b, s, tag) ==
    IF ~tag.ok THEN Fail
    ELSE IF tag.vals[1] = 0 THEN SphereDone(s, DecF32(b, tag))
    ELSE IF tag.vals[1] = 1 THEN Box3dDone(s, DecF32(b, DecF32(b, DecF32(b, tag))))
    ELSE Fail

DecSdf(b, s) == SdfVariant(b, s, DecU32(b, Enter(s)))

TimelineDone(s, t) ==
    IF t.ok THEN Done(s, t, IF t.vals[1] = 1 THEN Some("timeline") ELSE None) ELSE Fail

DecTimeline(b, s) == TimelineDone(s, DecTag(b, Enter(s)))

SomeDone(s, r) == IF r.ok THEN Done(s, r, Some(r.vals[2])) ELSE Fail

OptionId(b, s, t) ==
    IF ~t.ok THEN Fail
    ELSE IF t.vals[1] = 0 THEN Done(s, t, None)
    ELSE SomeDone(s, DecU32(b, t))

DecOptionId(b, s) == OptionId(b, s, DecTag(b, Enter(s)))

TransformDone(s, r) ==
    IF r.ok
    THEN Done(s, r, [position |-> SubSeq(r.vals, 1, 3), rotation |-> SubSeq(r.vals, 4, 7),
                     scale |-> SubSeq(r.vals, 8, 10)])
    ELSE Fail

DecVec3(b, s) == DecF32(b, DecF32(b, DecF32(b, s)))

DecTransform(b, s) ==
    TransformDone(s, DecVec3(b, DecF32(b, DecVec3(b, DecVec3(b, Enter(s))))))

ActorDone(s, r) ==
    IF r.ok
    THEN Done(s, r, [base_sdf |-> r.vals[1], timeline |-> r.vals[2],
                     local_transform |-> r.vals[3], parent |-> r.vals[4],
                     visible |-> r.vals[5]])
    ELSE Fail

DecActor(b, s) ==
    ActorDone(s, DecBool(b, DecOptionId(b, DecTransform(b, DecTimeline(b,
                     DecSdf(b, Enter(s)))))))

OptionActor(b, s, t) ==
    IF ~t.ok THEN Fail
    ELSE IF t.vals[1] = 0 THEN Done(s, t, None)
    ELSE SomeDone(s, DecActor(b, t))

DecSlot(b, s) == OptionActor(b, s, DecTag(b, Enter(s)))

CutEntryDone(s, r) ==
    IF r.ok
    THEN Done(s, r, <<r.vals[1], [start_time |-> r.vals[2], end_time |-> r.vals[3]]>>)
    ELSE Fail

DecCutEntry(b, s) == CutEntryDone(s, DecF32(b, DecF32(b, DecU32(b, Enter(s)))))

DecElem(what, b, s) ==
    IF what = "slot" THEN DecSlot(b, s)
    ELSE IF what = "cut" THEN DecCutEntry(b, s)
    ELSE DecU32(b, s)

\* The n elements of a Vec, each read by the decoder of kind `what`; each
\* element is read before the next one starts.
RECURSIVE DecElems(_, _, _, _)
DecElems(what, b, s, n) ==
    IF n = 0 \/ ~s.ok THEN s
    ELSE CHOOSE r \in {DecElems(what, b, e, n - 1) : e \in {DecElem(what, b, s)}} : TRUE

VecDone(s, r) == IF r.ok THEN Done(s, r, r.vals) ELSE Fail

VecElems(what, b, s, n) ==
    IF n.ok THEN VecDone(s, DecElems(what, b, Enter(n), n.vals[1])) ELSE Fail

DecVec(what, b, s) == VecElems(what, b, s, DecLen(b, Enter(s)))

MetadataDone(s, r) ==
    IF r.ok
    THEN Done(s, r, [title |-> r.vals[1], episode_number |-> r.vals[2],
                     duration_seconds |-> r.vals[3],
                     resolution |-> <<r.vals[4], r.vals[5]>>])
    ELSE Fail

DecMetadata(b, s) ==
    MetadataDone(s, DecU32(b, DecU32(b, DecF32(b, DecU32(b, DecString(b, Enter(s)))))))

SceneGraphDone(s, r) ==
    IF r.ok
    THEN Done(s, r, [actors |-> r.vals[1], next_id |-> r.vals[2],
                     root_actors |-> r.vals[3]])
    ELSE Fail

DecSceneGraph(b, s) ==
    SceneGraphDone(s, DecVec("id", b, DecU32(b, DecVec("slot", b, Enter(s)))))

DirectorDone(s, r) ==
    IF r.ok THEN Done(s, r, [sorted_cuts |-> r.vals[1], next_id |-> r.vals[2]]) ELSE Fail

DecDirector(b, s) == DirectorDone(s, DecU32(b, DecVec("cut", b, Enter(s))))

PackageDone(r) ==
    IF r.ok
    THEN [ok |-> TRUE,
          val |-> [metadata |-> r.vals[1], scene_graph |-> r.vals[2],
                   director |-> r.vals[3]]]
    ELSE [ok |-> FALSE, val |-> <<>>]

\* bincode::deserialize(&body); trailing bytes are allowed.
bincode_deserialize(b) ==
    PackageDone(DecDirector(b, DecSceneGraph(b, DecMetadata(b, Begin))))

----------------------------------------------------------------------------
(* serialize_episode *)

\* b"ANIM"
EPISODE_MAGIC == <<65, 78, 73, 77>>
EPISODE_VERSION == 1
HEADER_LEN == 16

\* Faulty variant: the header with the CRC written before the size.
HeaderBytesCrcFirst(body_) ==
    EPISODE_MAGIC \o U16ToLe(EPISODE_VERSION) \o U16ToLe(0) \o crc32(body_)
        \o U32ToLe(Len(body_))

\* The five header writes of serialize_episode, in order.
HeaderBytes(body_) ==
    EPISODE_MAGIC \o U16ToLe(EPISODE_VERSION) \o U16ToLe(0) \o U32ToLe(Len(body_))
        \o crc32(body_)

\* serialize_episode(episode, writer) on a writer that holds `before`: the
\* writer's content afterwards and the count returned.
serialize_episode(pkg, before) ==
    CHOOSE out \in {[bytes |-> before \o HeaderBytes(body_) \o body_,
                     count |-> 16 + Len(body_)] : body_ \in {bincode_serialize(pkg)}} : TRUE

Serialize ==
    /\ package # None
    /\ written = None
    /\ LET out == serialize_episode(package[1], wire)
       IN  /\ wire' = out.bytes
           /\ sent' = out.bytes
           /\ written' = Some(out.count)
    /\ UNCHANGED <<package, edits, pc, header, body, de_result, steps>>
    /\ UNCHANGED notEpisodeVars

\* EpisodePackage::new takes the SceneGraph and the Director as they stand.
NewPackage(metadata) ==
    /\ package = None
    /\ package' = Some(EpisodePackage(metadata, TheSceneGraph, TheDirector))
    /\ UNCHANGED <<wire, sent, written, edits, pc, header, body, de_result, steps>>
    /\ UNCHANGED notEpisodeVars

----------------------------------------------------------------------------
(* Changes to the artifact between writing and reading *)

\* One byte of the artifact is overwritten.
CorruptByte(i, v) ==
    /\ written # None
    /\ pc = "idle"
    /\ i \in 0..(Len(wire) - 1)
    /\ wire[i + 1] # v
    /\ wire' = [wire EXCEPT ![i + 1] = v]
    /\ edits' = edits + 1
    /\ UNCHANGED <<package, sent, written, pc, header, body, de_result, steps>>
    /\ UNCHANGED notEpisodeVars

\* The artifact is cut to its first n bytes.
Truncate(n) ==
    /\ written # None
    /\ pc = "idle"
    /\ n < Len(wire)
    /\ wire' = SubSeq(wire, 1, n)
    /\ edits' = edits + 1
    /\ UNCHANGED <<package, sent, written, pc, header, body, de_result, steps>>
    /\ UNCHANGED notEpisodeVars

----------------------------------------------------------------------------
(* deserialize_episode, one action per step. The reader is a cursor over     *)
(* `wire`, at offset 0 when the call begins.                                 *)

Err(kind, reason) == [ok |-> FALSE, kind |-> kind, reason |-> reason, package |-> None]
OkPackage(pkg) == [ok |-> TRUE, kind |-> "", reason |-> "", package |-> Some(pkg)]

\* return Err(..): the call ends.
Return(r, step) ==
    /\ de_result' = Some(r)
    /\ pc' = "done"
    /\ steps' = Append(steps, step)

\* Faulty variant: the magic is never rejected.
MagicMismatchNever(h) == FALSE

\* &header[0..4] != &EPISODE_MAGIC
MagicMismatch(h) == SubSeq(h, 1, 4) # EPISODE_MAGIC

\* Faulty variant: the version is never rejected.
VersionMismatchNever(h) == FALSE

\* version != EPISODE_VERSION
VersionMismatch(h) == U16FromLe(SubSeq(h, 5, 6)) # EPISODE_VERSION

\* The size field as usize; a value of 2^31 or more exceeds any input of the
\* model and is reported as HEADER_LEN + Len(input), which no read can fill.
SizeField(h, input) ==
    IF h[12] >= 128 THEN HEADER_LEN + Len(input) ELSE U32FromLe(SubSeq(h, 9, 12))

\* Faulty variant: only the low byte of the CRC is compared.
CrcMismatchLowByte(h, body_) == crc32(body_)[1] # h[13]

\* actual_crc != expected_crc
CrcMismatch(h, body_) == crc32(body_) # SubSeq(h, 13, 16)

\* reader.read_exact(&mut header)?
ReadHeader ==
    /\ written # None
    /\ pc = "idle"
    /\ IF Len(wire) >= HEADER_LEN
       THEN /\ header' = SubSeq(wire, 1, HEADER_LEN)
            /\ pc' = "header_read"
            /\ steps' = Append(steps, "read_header")
            /\ UNCHANGED de_result
       ELSE /\ Return(Err("UnexpectedEof", "failed to fill whole buffer"), "read_header")
            /\ UNCHANGED header
    /\ UNCHANGED <<package, wire, sent, written, edits, body>>
    /\ UNCHANGED notEpisodeVars

CheckMagic ==
    /\ pc = "header_read"
    /\ IF MagicMismatch(header)
       THEN Return(Err("InvalidData", "Invalid magic bytes"), "check_magic")
       ELSE /\ pc' = "magic_ok"
            /\ steps' = Append(steps, "check_magic")
            /\ UNCHANGED de_result
    /\ UNCHANGED <<package, wire, sent, written, edits, header, body>>
    /\ UNCHANGED notEpisodeVars

CheckVersion ==
    /\ pc = "magic_ok"
    /\ IF VersionMismatch(header)
       THEN Return(Err("InvalidData", "Unsupported version"), "check_version")
       ELSE /\ pc' = "version_ok"
            /\ steps' = Append(steps, "check_version")
            /\ UNCHANGED de_result
    /\ UNCHANGED <<package, wire, sent, written, edits, header, body>>
    /\ UNCHANGED notEpisodeVars

\* let mut body = vec![0u8; size]; reader.read_exact(&mut body)?
ReadBody ==
    /\ pc = "version_ok"
    /\ LET size == SizeField(header, wire)
       IN  IF Len(wire) - HEADER_LEN >= size
           THEN /\ body' = SubSeq(wire, HEADER_LEN + 1, HEADER_LEN + size)
                /\ pc' = "body_read"
                /\ steps' = Append(steps, "read_body")
                /\ UNCHANGED de_result
           ELSE /\ Return(Err("UnexpectedEof", "failed to fill whole buffer"), "read_body")
                /\ UNCHANGED body
    /\ UNCHANGED <<package, wire, sent, written, edits, header>>
    /\ UNCHANGED notEpisodeVars

CheckCrc ==
    /\ pc = "body_read"
    /\ IF CrcMismatch(header, body)
       THEN Return(Err("InvalidData", "CRC mismatch"), "check_crc")
       ELSE /\ pc' = "crc_ok"
            /\ steps' = Append(steps, "check_crc")
            /\ UNCHANGED de_result
    /\ UNCHANGED <<package, wire, sent, written, edits, header, body>>
    /\ UNCHANGED notEpisodeVars

\* bincode::deserialize(&body).map_err(..)
DecodeBody ==
    /\ pc = "crc_ok"
    /\ LET r == bincode_deserialize(body)
       IN  Return(IF r.ok THEN OkPackage(r.val) ELSE Err("InvalidData", "bincode"),
                  "decode_body")
    /\ UNCHANGED <<package, wire, sent, written, edits, header, body>>
    /\ UNCHANGED notEpisodeVars

Deserialize ==
    \/ ReadHeader
    \/ CheckMagic
    \/ CheckVersion
    \/ ReadBody
    \/ CheckCrc
    \/ DecodeBody

Episode_new ==
    /\ package = None
    /\ wire = <<>>
    /\ sent = <<>>
    /\ written = None
    /\ edits = 0
    /\ pc = "idle"
    /\ header = <<>>
    /\ body = <<>>
    /\ de_result = None
    /\ steps = <<>>

----------------------------------------------------------------------------
(* AnimationCache. The HashMap is a function from the frame indexes it holds  *)
(* to their CachedFrame.                                                     *)

CachedFrame(time, state) == [time |-> time, state |-> state, sdf_hash |-> 0]

\* HashMap::remove and HashMap::insert
MapRemove(map, key) == [k \in (DOMAIN map) \ {key} |-> map[k]]
MapInsert(map, key, value) ==
    [k \in (DOMAIN map) \cup {key} |-> IF k = key THEN value ELSE map[k]]

\* AnimationCache::new(max_frames)
AnimationCache_new(n) ==
    /\ frames = <<>>
    /\ max_frames = n
    /\ hit_count = 0
    /\ miss_count = 0
    /\ cache_call = None
    /\ cache_out = None

\* The eviction step of a miss: when the map holds max_frames entries or more,
\* the entry under keys().next() is removed, if there is one. A HashMap
\* iterates in an unspecified order, so that key is any key of the map.
Evicted(map, max) ==
    IF Cardinality(DOMAIN map) >= max /\ DOMAIN map # {}
    THEN {MapRemove(map, oldest_key) : oldest_key \in DOMAIN map}
    ELSE {map}

\* The most get_or_evaluate calls counted by one cache.
MaxCalls == 3

\* AnimationCache::get_or_evaluate(frame_index, time, director, scene)
GetOrEvaluate(frame_index, time) ==
    /\ hit_count + miss_count < MaxCalls
    /\ cache_call' = Some([frame_index |-> frame_index, time |-> time])
    /\ IF frame_index \in DOMAIN frames
       THEN /\ hit_count' = hit_count + 1
            /\ cache_out' = Some(frames[frame_index].state)
            /\ UNCHANGED <<frames, miss_count>>
       ELSE /\ miss_count' = miss_count + 1
            /\ \E state \in Director_evaluate(sorted_cuts, time) :
                  /\ \E kept \in Evicted(frames, max_frames) :
                        frames' = MapInsert(kept, frame_index, CachedFrame(time, state))
                  /\ cache_out' = Some(state)
            /\ UNCHANGED hit_count
    /\ UNCHANGED max_frames
    /\ UNCHANGED notCacheVars

\* AnimationCache::clear
CacheClear ==
    /\ frames' = <<>>
    /\ hit_count' = 0
    /\ miss_count' = 0
    /\ cache_call' = None
    /\ cache_out' = None
    /\ UNCHANGED max_frames
    /\ UNCHANGED notCacheVars

----------------------------------------------------------------------------
(* Specifications *)

\* The camera track under authoring starts as CameraTrack::default(); `t` is
\* the keyframe library's choice among samples at one time.
Camera_new(t) ==
    /\ tie = t
    /\ camera = CameraTrack_default
    /\ preset = None
    /\ cam_call = None
    /\ cam_out = None

Init ==
    /\ Director_new /\ SceneGraph_new /\ Episode_new
    /\ Camera_new("latest")
    /\ AnimationCache_new(0)
    /\ earlier = None

\* The same start under either choice of the keyframe library.
InitAnyTie ==
    /\ Director_new /\ SceneGraph_new /\ Episode_new
    /\ \E t \in Ties : Camera_new(t)
    /\ AnimationCache_new(0)
    /\ earlier = None

DirectorNext ==
    \/ \E s \in Times : \E e \in Ends(s) : add_cut(Cut(s, e))
    \/ \E t \in Times : FindActiveCut(t)

DirectorSpec == Init /\ [][DirectorNext]_vars

\* The Director with cuts added, start times edited in place through
\* get_cut_mut, and queried.
EditNext ==
    \/ \E s \in {0, 1} : \E e \in {s + 1, s + 2} : add_cut(Cut(s, e))
    \/ \E id \in 0..(MaxCuts - 1), s \in Times : SetStartTime(id, s)
    \/ \E t \in Times : FindActiveCut(t)

EditSpec == Init /\ [][EditNext]_vars

\* A cache of any capacity up to MaxFrames in front of a director that is
\* staged first and left unchanged once the cache has been called; one more
\* frame index than the largest capacity is requested.
MaxFrames == 2
FrameIndexes == 0..MaxFrames

CacheInit ==
    /\ Director_new /\ SceneGraph_new /\ Episode_new
    /\ Camera_new("latest")
    /\ \E n \in 0..MaxFrames : AnimationCache_new(n)
    /\ earlier = None

CacheNext ==
    \/ /\ hit_count + miss_count = 0
       /\ frames = <<>>
       /\ Len(sorted_cuts) < 2
       /\ \E s \in {0, 2} : add_cut(Cut(s, s + 1))
    \/ \E i \in FrameIndexes, t \in Times : GetOrEvaluate(i, t)
    \/ CacheClear

CacheSpec == CacheInit /\ [][CacheNext]_vars

\* The actors tried: two static spheres and an animated box, under a parent
\* handle that may name any slot up to the one the actor itself will get.
Looks == {<<Sphere(1), None>>, <<Sphere(2), None>>, <<Box3d, Some("timeline")>>}
ParentHandles == {None} \cup {Some(p) : p \in 0..actor_next_id}
SceneTimes == 0..1

SceneNext ==
    \/ \E look \in Looks, parent \in ParentHandles :
          add_actor(Actor(look[1], look[2], parent))
    \/ \E id \in 0..(MaxActors - 1), v \in BOOLEAN : SetVisible(id, v)
    \/ \E t \in SceneTimes : EvaluateScene(t)

SceneSpec == Init /\ [][SceneNext]_vars

\* The scene graph built from actors that carry a local transform and any
\* parent handle (of an actor added before, of the actor itself, of an actor
\* not added yet), and asked for world transforms. The transforms are
\* those of test_parent_child_transform and one that turns and stretches.
AnyHandles == {None} \cup {Some(p) : p \in 0..(MaxActors - 1)}
Placements ==
    {ActorTransform(Vec3(10, 0, 0), QUAT_IDENTITY, Vec3(1, 1, 1)),
     ActorTransform(Vec3(0, 5, 0), QUAT_IDENTITY, Vec3(1, 1, 1)),
     ActorTransform(Vec3(1, 2, 3), <<0, 0, 1, 0>>, Vec3(2, 1, 1))}

TransformNext ==
    \/ \E parent \in AnyHandles, t \in Placements :
          add_actor(with_transform(Actor(Sphere(1), None, parent), t))
    \/ \E id \in 0..MaxActors : GetWorldTransform(id)

TransformSpec == Init /\ [][TransformNext]_vars

\* The scene graph with actors added under any parent handle and parents
\* changed in place through get_actor_mut.
ReparentNext ==
    \/ \E parent \in AnyHandles : add_actor(Actor(Sphere(1), None, parent))
    \/ \E id \in 0..(MaxActors - 1), parent \in AnyHandles : SetParent(id, parent)

ReparentSpec == Init /\ [][ReparentNext]_vars

----------------------------------------------------------------------------
(* Director::duration, get_cut and evaluate as calls *)

Duration ==
    /\ dir_call' = Some(<<"duration">>)
    /\ dir_out' = Some(Director_duration(sorted_cuts))
    /\ UNCHANGED <<sorted_cuts, next_id, issued, returned, query, active, earlier>>
    /\ UNCHANGED notDirVars

\* Cuts whose end times lie on both sides of 0.0.
SignedTimes == (0 - MaxTime)..MaxTime

DurationNext ==
    \/ \E s \in {0 - MaxTime, 0}, e \in SignedTimes : add_cut(Cut(s, e))
    \/ Duration

DurationSpec == Init /\ [][DurationNext]_vars

\* The cameras of the staged cuts: the default track and a track panned by
\* 3 per unit of time over [0, 2].
StagedCameras ==
    {CameraTrack_default, apply_preset(CameraTrack_default, Pan(3), 0, 2)}

StageNext ==
    \/ \E s \in Times, c \in StagedCameras : add_cut(with_camera(Cut(s, s + 2), c))
    \/ \E id \in 0..MaxCuts : GetCut(id)
    \/ \E t \in 0..(MaxTime + 2) : DirectorEvaluate(t)

StageSpec == Init /\ [][StageNext]_vars

----------------------------------------------------------------------------
(* The camera track under authoring *)

\* The most samples a channel holds when an authoring call starts.
MaxKeys == 3

AddKeyframe(time, position, target, fov) ==
    /\ Len(camera.fov_track) <= MaxKeys
    /\ camera' = add_keyframe(camera, time, position, target, fov)
    /\ preset' = None
    /\ cam_call' = None
    /\ cam_out' = None
    /\ earlier' = Forget(earlier, "CameraTrack")
    /\ UNCHANGED tie
    /\ UNCHANGED notCamVars

ApplyPreset(work, start, dur) ==
    /\ Len(camera.fov_track) <= MaxKeys
    /\ camera' = apply_preset(camera, work, start, dur)
    /\ preset' = Some([work |-> work, start |-> start, duration |-> dur,
                       before |-> camera])
    /\ cam_call' = None
    /\ cam_out' = None
    /\ earlier' = Forget(earlier, "CameraTrack")
    /\ UNCHANGED tie
    /\ UNCHANGED notCamVars

\* Faulty variant: an evaluate that keys the state it has read.
CameraEvaluateKeying(time) ==
    /\ cam_call' = Some(time)
    /\ cam_out' = Some(CameraTrack_evaluate(camera, time))
    /\ camera' = KeyState(camera, time + 1, PanEnd(CameraTrack_evaluate(camera, time), 1, 1))
    /\ earlier' = Bump(earlier)
    /\ UNCHANGED <<tie, preset>>
    /\ UNCHANGED notCamVars

CameraEvaluate(time) ==
    /\ cam_call' = Some(time)
    /\ cam_out' = Some(CameraTrack_evaluate(camera, time))
    /\ earlier' = Bump(earlier)
    /\ UNCHANGED <<tie, camera, preset>>
    /\ UNCHANGED notCamVars

\* The inputs of the authoring calls: a keyed state off the axes, the
\* presets, and the <<start, duration>> they are applied over.
KeyedState == CameraState(Vec3(6, 2, 5), Vec3(0, 1, 0), 500)
Works == {Static, Pan(2), Tilt(1), Zoom(900), Shake(1000, 1), Shake(-1000, 1)}
Orbits == {Orbit(4, 1), Orbit(1000, -1)}
Spans == {<<0, 2>>, <<2, 2>>}
OrbitSpans == {<<0, 8>>, <<2, 8>>, <<2, 0>>}
EvalTimes == {0, 2, 3, 4, 6}

CameraNext ==
    \/ \E t \in {2, 4} :
          AddKeyframe(t, KeyedState.position, KeyedState.target, KeyedState.fov)
    \/ \E w \in Works, span \in Spans : ApplyPreset(w, span[1], span[2])
    \/ \E span \in Spans :
          /\ AxisAligned(view(CameraTrack_evaluate(camera, span[1])))
          /\ ApplyPreset(Dolly(1), span[1], span[2])
    \/ \E w \in Orbits, span \in OrbitSpans : ApplyPreset(w, span[1], span[2])
    \/ \E t \in EvalTimes : CameraEvaluate(t)

CameraSpec == InitAnyTie /\ [][CameraNext]_vars

----------------------------------------------------------------------------
(* The three evaluation entry points side by side *)

\* The model keeps an evaluation made on a receiver, to compare a later one.
RememberDirector ==
    /\ dir_call # None /\ dir_call[1][1] = "evaluate"
    /\ earlier' = Some([receiver |-> "Director", time |-> dir_call[1][2],
                        out |-> dir_out[1], since |-> 0])
    /\ UNCHANGED <<dirVars, sceneVars, episodeVars, camVars, cacheVars>>

RememberCamera ==
    /\ cam_call # None
    /\ earlier' = Some([receiver |-> "CameraTrack", time |-> cam_call[1],
                        out |-> cam_out[1], since |-> 0])
    /\ UNCHANGED <<dirVars, sceneVars, episodeVars, camVars, cacheVars>>

RememberScene ==
    /\ scene_time # None
    /\ earlier' = Some([receiver |-> "SceneGraph", time |-> scene_time[1],
                        out |-> scene_out[1], since |-> 0])
    /\ UNCHANGED <<dirVars, sceneVars, episodeVars, camVars, cacheVars>>

PureTimes == 0..1

PureNext ==
    \/ add_cut(with_camera(Cut(0, 2), apply_preset(CameraTrack_default, Pan(3), 0, 2)))
    \/ \E t \in PureTimes : DirectorEvaluate(t)
    \/ add_actor(Actor(Box3d, Some("timeline"), None))
    \/ \E t \in PureTimes : EvaluateScene(t)
    \/ ApplyPreset(Pan(2), 0, 2)
    \/ ApplyPreset(Shake(1000, 1), 0, 0)
    \/ \E t \in PureTimes : CameraEvaluate(t)
    \/ RememberDirector
    \/ RememberCamera
    \/ RememberScene

PureSpec == Init /\ [][PureNext]_vars

\* The episode built call by call, written and read back. The cuts, actors and
\* metadata tried are those of the repository's tests, with a zero-duration
\* cut, a parented animated actor, an empty title and a two-byte episode
\* number added. The SceneGraph and the Director move into the package.
EpWindows == {<<0, 3>>, <<3, 8>>, <<5, 5>>}
EpActors == {Actor(Sphere(1), None, None), Actor(Box3d, Some("timeline"), Some(0))}
EpMetas ==
    {EpisodeMetadata(<<84, 101, 115, 116>>, 1, 8), EpisodeMetadata(<<>>, 300, 0)}

EpisodeNext ==
    \/ package = None /\ \E w \in EpWindows : add_cut(Cut(w[1], w[2]))
    \/ package = None /\ \E a \in EpActors : add_actor(a)
    \/ \E m \in EpMetas : NewPackage(m)
    \/ Serialize
    \/ Deserialize

EpisodeSpec == Init /\ [][EpisodeNext]_vars

\* The packages whose artifacts are damaged before they are read: the one the
\* repository's tests build (make_test_episode) and an episode with no actor,
\* no cut and an empty title.
NewSceneGraph == [actors |-> <<>>, next_id |-> 0, root_actors |-> <<>>]
NewDirector == [sorted_cuts |-> <<>>, next_id |-> 0]

WithActor(sg, actor) == AddActorResult(sg, actor)
WithCut(d, cut) == CHOOSE r \in AddCutResults(d.sorted_cuts, d.next_id, cut) : TRUE

make_test_episode ==
    EpisodePackage(
        EpisodeMetadata(<<84, 101, 115, 116>>, 1, 8),
        WithActor(WithActor(NewSceneGraph, Actor(Sphere(1), None, None)),
                  Actor(Box3d, None, None)),
        WithCut(WithCut(NewDirector, Cut(0, 3)), Cut(3, 8)))

EmptyEpisode == EpisodePackage(EpisodeMetadata(<<>>, 0, 0), NewSceneGraph, NewDirector)

Fixtures == {make_test_episode, EmptyEpisode}

\* A package is at hand; its SceneGraph and Director were moved into it.
FixtureInit ==
    /\ Director_new
    /\ SceneGraph_new
    /\ Camera_new("latest")
    /\ AnimationCache_new(0)
    /\ earlier = None
    /\ package \in {Some(p) : p \in Fixtures}
    /\ wire = <<>>
    /\ sent = <<>>
    /\ written = None
    /\ edits = 0
    /\ pc = "idle"
    /\ header = <<>>
    /\ body = <<>>
    /\ de_result = None
    /\ steps = <<>>

\* The artifact is written, damaged up to MaxEdits times (a byte overwritten in
\* any header field, at either end of the body, or the artifact cut inside the
\* header, at its end, or inside the body) and read.
MaxEdits == 3
HeaderOffsets == {0, 3, 4, 5, 6, 8, 9, 11, 12, 15}
BodyOffsets == {HEADER_LEN, Len(wire) - 1}
DamageValues == {0, 2, 255}
CutLengths == {0, HEADER_LEN - 1, HEADER_LEN, Len(wire) - 1}

DecodeNext ==
    \/ Serialize
    \/ edits < MaxEdits /\ \E i \in HeaderOffsets \cup BodyOffsets, v \in DamageValues :
                               CorruptByte(i, v)
    \/ edits < MaxEdits /\ \E n \in CutLengths : Truncate(n)
    \/ Deserialize

DecodeSpec == FixtureInit /\ [][DecodeNext]_vars

\* The artifact is written, one byte of its body is changed to any other
\* value, and it is read.
Bytes == 0..255

CorruptionNext ==
    \/ Serialize
    \/ edits = 0 /\ pc = "idle" /\ \E i \in HEADER_LEN..(Len(wire) - 1), v \in Bytes :
                                      CorruptByte(i, v)
    \/ Deserialize

CorruptionSpec == FixtureInit /\ [][CorruptionNext]_vars

----------------------------------------------------------------------------
(* Properties of the Director *)

\* Every cut has positive duration and the half-open windows are pairwise
\* disjoint.
PositiveDisjoint(cuts) ==
    /\ \A i \in 1..Len(cuts) : cuts[i][2].end_time > cuts[i][2].start_time
    /\ \A i, j \in 1..Len(cuts) :
          i # j => \/ cuts[i][2].end_time <= cuts[j][2].start_time
                   \/ cuts[j][2].end_time <= cuts[i][2].start_time

\* The positions of the cuts whose window start_time <= t < end_time holds t.
Holders(cuts, t) ==
    {i \in 1..Len(cuts) : cuts[i][2].start_time <= t /\ t < cuts[i][2].end_time}

\* The entry carries the CutId that add_cut returned for this very cut.
OwnId(entry) == entry[1] \in 0..(Len(issued) - 1) /\ issued[entry[1] + 1] = entry[2]

\* C1: with positive-duration, pairwise-disjoint cuts added in any order,
\* find_active_cut(t) returns the one cut whose window holds t, with its own
\* CutId, and None when t lies in no window.
C1_FindsTheUniqueWindow ==
    (query # None /\ PositiveDisjoint(sorted_cuts)) =>
        LET h == Holders(sorted_cuts, query[1])
        IN  IF h = {} THEN active = None
            ELSE /\ Cardinality(h) = 1
                 /\ \E i \in h : active = Some(sorted_cuts[i]) /\ OwnId(sorted_cuts[i])

\* C1 witness: three disjoint cuts added in descending order of start_time,
\* and a query answered with the cut added second.
C1_Witness ==
    /\ Len(issued) = 3
    /\ issued[1].start_time > issued[2].start_time
    /\ issued[2].start_time > issued[3].start_time
    /\ PositiveDisjoint(sorted_cuts)
    /\ active # None
    /\ active[1][1] = 1

\* C2: after any sequence of add_cut calls the cut sequence is in
\* non-decreasing start_time order and holds exactly the cuts that were
\* added: every issued CutId once, each with the cut it was issued for.
C2_SortedAndComplete ==
    /\ \A i, j \in 1..Len(sorted_cuts) :
          i < j => sorted_cuts[i][2].start_time <= sorted_cuts[j][2].start_time
    /\ Len(sorted_cuts) = Len(issued)
    /\ \A k \in 1..Len(issued) :
          Cardinality({i \in 1..Len(sorted_cuts) :
                          sorted_cuts[i] = <<k - 1, issued[k]>>}) = 1

\* C2 witness: cuts arrived in descending start order, with a tie.
C2_Witness ==
    /\ Len(issued) = 3
    /\ issued[1].start_time > issued[2].start_time
    /\ issued[2].start_time = issued[3].start_time
    /\ Len(sorted_cuts) = 3

\* C3: for contiguous cuts [a,b) and [b,c) among non-overlapping cuts, every
\* t in [a,c) has exactly one of the two as its window and find_active_cut(t)
\* returns that one; at t = b it is the later cut [b,c).
C3_OneCutAtTheBoundary ==
    (query # None /\ PositiveDisjoint(sorted_cuts)) =>
        \A i, j \in 1..Len(sorted_cuts) :
            LET t == query[1]
                ci == sorted_cuts[i][2]
                cj == sorted_cuts[j][2]
            IN  (ci.end_time = cj.start_time /\ ci.start_time <= t /\ t < cj.end_time) =>
                    /\ (t < ci.end_time) # (cj.start_time <= t)
                    /\ active = Some(IF t < ci.end_time THEN sorted_cuts[i]
                                                       ELSE sorted_cuts[j])
                    /\ (t = ci.end_time => active = Some(sorted_cuts[j]))

\* C3 witness: the query time is the shared boundary of two contiguous cuts
\* and the later cut was returned.
C3_Witness ==
    /\ query # None
    /\ PositiveDisjoint(sorted_cuts)
    /\ \E i, j \in 1..Len(sorted_cuts) :
          /\ sorted_cuts[i][2].end_time = query[1]
          /\ sorted_cuts[j][2].start_time = query[1]
          /\ active = Some(sorted_cuts[j])

\* C4: for any cuts at all, a returned (id, cut) has start_time <= t <
\* end_time and id is the CutId issued for that cut; so a cut with end_time <=
\* start_time is never returned, the answer is None when no window holds t,
\* and an empty Director answers None.
C4_ReturnedCutContainsTime ==
    query # None =>
        /\ active # None =>
              /\ active[1][2].start_time <= query[1]
              /\ query[1] < active[1][2].end_time
              /\ active[1][2].end_time > active[1][2].start_time
              /\ OwnId(active[1])
              /\ \E i \in 1..Len(sorted_cuts) : sorted_cuts[i] = active[1]
        /\ Holders(sorted_cuts, query[1]) = {} => active = None
        /\ sorted_cuts = <<>> => active = None

\* C4 witness: overlapping cuts and a zero-duration cut are present and a
\* cut was returned.
C4_Witness ==
    /\ active # None
    /\ ~PositiveDisjoint(sorted_cuts)
    /\ \E i \in 1..Len(sorted_cuts) :
          sorted_cuts[i][2].end_time <= sorted_cuts[i][2].start_time
    /\ Cardinality(Holders(sorted_cuts, query[1])) > 1

----------------------------------------------------------------------------
(* Properties of the SceneGraph *)

\* The positions of the occupied slots whose actor is visible.
VisibleSlots(slots) == {i \in 1..Len(slots) : slots[i] # None /\ slots[i][1].visible}

\* The shape a visible actor contributes: its base shape, bound to its
\* timeline and sampled at t when it has one.
ActorShape(slot, t) ==
    IF slot[1].timeline = None THEN slot[1].base_sdf
    ELSE <<"Animated", slot[1].base_sdf, t>>

IsUnion(node) == node[1] = "Union"

\* The number of Union nodes of a shape tree.
RECURSIVE UnionCount(_)
UnionCount(node) ==
    IF IsUnion(node) THEN 1 + UnionCount(node[2]) + UnionCount(node[3]) ELSE 0

\* The operands of a shape tree's unions, left to right.
RECURSIVE Leaves(_)
Leaves(node) ==
    IF IsUnion(node) THEN Leaves(node[2]) \o Leaves(node[3]) ELSE <<node>>

\* Every union's right operand is a single shape: ((s0 U s1) U s2) ...
RECURSIVE LeftDeep(_)
LeftDeep(node) ==
    IsUnion(node) => (~IsUnion(node[3]) /\ LeftDeep(node[2]))

\* The i-th smallest element of a set of numbers (i from 1).
RECURSIVE Nth(_, _)
Nth(S, i) ==
    LET m == CHOOSE x \in S : \A y \in S : x <= y
    IN  IF i = 1 THEN m ELSE Nth(S \ {m}, i - 1)

\* C10: with k present and visible actors evaluate_scene(t) returns the unit
\* sphere for k = 0, the actor's own shape (no Union) for k = 1, and for k > 1
\* the left-deep chain of k-1 Unions over the actors' shapes in ascending
\* slot order; invisible actors contribute nothing.
C10_SceneIsLeftFoldOfVisibleActors ==
    scene_out # None =>
        LET t == scene_time[1]
            vis == VisibleSlots(actors)
            k == Cardinality(vis)
            out == scene_out[1]
        IN  /\ k = 0 => out = <<"Sphere", 1>>
            /\ k = 1 => \E i \in vis : out = ActorShape(actors[i], t) /\ ~IsUnion(out)
            /\ k > 1 =>
                  /\ UnionCount(out) = k - 1
                  /\ LeftDeep(out)
                  /\ Len(Leaves(out)) = k
                  /\ \A n \in 1..k : Leaves(out)[n] = ActorShape(actors[Nth(vis, n)], t)

\* C10 witness: three actors with different shapes, the middle one invisible,
\* evaluated to a Union of the first and the last.
C10_Witness ==
    /\ Len(actors) = 3
    /\ VisibleSlots(actors) = {1, 3}
    /\ actors[1][1].base_sdf # actors[3][1].base_sdf
    /\ actors[3][1].timeline # None
    /\ scene_out # None
    /\ IsUnion(scene_out[1])


----------------------------------------------------------------------------
(* Properties of the episode container *)

\* The package given to serialize_episode and the outcome of the read.
Written == package[1]
Outcome == de_result[1]
Restored == de_result[1].package[1]

\* C5: read back from the bytes serialize_episode wrote for it, a package
\* comes out with the same metadata (title, episode number, duration,
\* resolution), the same actor count, the same cut count and the same
\* Director::duration().
C5_RoundTripPreservesThePackage ==
    (pc = "done" /\ wire = sent) =>
        /\ Outcome.ok
        /\ Restored.metadata.title = Written.metadata.title
        /\ Restored.metadata.episode_number = Written.metadata.episode_number
        /\ Restored.metadata.duration_seconds = Written.metadata.duration_seconds
        /\ Restored.metadata.resolution = Written.metadata.resolution
        /\ actor_count(Restored.scene_graph.actors) = actor_count(Written.scene_graph.actors)
        /\ cut_count(Restored.director.sorted_cuts) = cut_count(Written.director.sorted_cuts)
        /\ Director_duration(Restored.director.sorted_cuts)
              = Director_duration(Written.director.sorted_cuts)

\* C5 witness: a package of two actors (one animated, with a parent) and two
\* cuts, the longer one added first, titled "Test", has been written and
\* read back.
C5_Witness ==
    /\ pc = "done"
    /\ wire = sent
    /\ Outcome.ok
    /\ Written.metadata.title = <<84, 101, 115, 116>>
    /\ actor_count(Written.scene_graph.actors) = 2
    /\ Written.scene_graph.actors[2][1].timeline # None
    /\ cut_count(Written.director.sorted_cuts) = 2
    /\ issued[1] = Cut(3, 8)
    /\ Director_duration(Restored.director.sorted_cuts) = 8


\* The order of the steps of deserialize_episode.
StepOrder ==
    <<"read_header", "check_magic", "check_version", "read_body", "check_crc",
      "decode_body">>

Taken(step) == \E k \in 1..Len(steps) : steps[k] = step

\* What an input holds, read off its bytes.
HasHeader(w) == Len(w) >= 16
MagicOf(w) == SubSeq(w, 1, 4)
VersionOf(w) == w[5] + 256 * w[6]
DeclaredFits(w) ==
    /\ w[12] < 128
    /\ w[9] + 256 * w[10] + 65536 * w[11] + 16777216 * w[12] <= Len(w) - 16
DeclaredBody(w) ==
    SubSeq(w, 17, 16 + w[9] + 256 * w[10] + 65536 * w[11] + 16777216 * w[12])
DeclaredCrc(w) == SubSeq(w, 13, 16)

\* The classes of malformed input.
ShortHeader(w) == ~HasHeader(w)
WrongMagic(w) == HasHeader(w) /\ MagicOf(w) # <<65, 78, 73, 77>>
WrongVersion(w) == HasHeader(w) /\ VersionOf(w) # 1
ShortBody(w) == HasHeader(w) /\ ~DeclaredFits(w)
WrongCrc(w) == HasHeader(w) /\ DeclaredFits(w) /\ crc32(DeclaredBody(w)) # DeclaredCrc(w)

\* The reason of the error of the earliest check that fails on w, "" when
\* the magic, the version, the body length and the CRC are all in order.
EarliestFailure(w) ==
    IF ShortHeader(w) THEN "failed to fill whole buffer"
    ELSE IF WrongMagic(w) THEN "Invalid magic bytes"
    ELSE IF WrongVersion(w) THEN "Unsupported version"
    ELSE IF ShortBody(w) THEN "failed to fill whole buffer"
    ELSE IF WrongCrc(w) THEN "CRC mismatch"
    ELSE ""

\* C6: deserialize_episode reads the 16 header bytes, checks the magic, checks
\* the version, reads the declared number of body bytes, checks the CRC-32 and
\* decodes the body, in that order; the decoder runs only when the magic, the
\* version and the CRC are all valid; and an error is that of the earliest
\* check that fails.
C6_ChecksInFixedOrderBeforeDecoding ==
    /\ steps = SubSeq(StepOrder, 1, Len(steps))
    /\ Taken("decode_body") =>
          /\ ~WrongMagic(wire)
          /\ ~WrongVersion(wire)
          /\ ~WrongCrc(wire)
          /\ EarliestFailure(wire) = ""
    /\ (pc = "done" /\ EarliestFailure(wire) # "") =>
          /\ ~Outcome.ok
          /\ Outcome.reason = EarliestFailure(wire)
          /\ ~Taken("decode_body")

\* C6 witness: an input whose magic, version and CRC are all invalid has been
\* read, and the error is the magic's.
C6_Witness ==
    /\ pc = "done"
    /\ WrongMagic(wire)
    /\ WrongVersion(wire)
    /\ WrongCrc(wire)
    /\ Outcome.reason = "Invalid magic bytes"
    /\ steps = <<"read_header", "check_magic">>

\* The input is the artifact with exactly one byte changed, at offset 16 or
\* beyond.
OneBodyByteChanged ==
    /\ written # None
    /\ Len(wire) = Len(sent)
    /\ Cardinality({i \in 1..Len(sent) : wire[i] # sent[i]}) = 1
    /\ \A i \in 1..16 : wire[i] = sent[i]

\* C7: an artifact with any single byte of its body changed and its header
\* intact is answered with the CRC-mismatch error; no package is returned and
\* the body decoder is not reached.
C7_BodyCorruptionIsACrcMismatch ==
    (pc = "done" /\ OneBodyByteChanged) =>
        /\ Outcome = Err("InvalidData", "CRC mismatch")
        /\ Outcome.package = None
        /\ ~Taken("decode_body")

\* C7 witness: the last byte of make_test_episode's artifact was changed by
\* one bit, and the read has ended at the CRC check.
C7_Witness ==
    /\ pc = "done"
    /\ OneBodyByteChanged
    /\ Written = make_test_episode
    /\ wire[Len(wire)] = sent[Len(sent)] + 1
    /\ steps = SubSeq(StepOrder, 1, 5)

\* An input of one of the malformed classes.
Malformed(w) ==
    ShortHeader(w) \/ WrongMagic(w) \/ WrongVersion(w) \/ ShortBody(w) \/ WrongCrc(w)

\* C8 as stated: every malformed input is answered with an error of the one
\* kind InvalidData. A short header or body is answered with UnexpectedEof.
C8_EveryClassIsInvalidData ==
    (pc = "done" /\ Malformed(wire)) =>
        /\ ~Outcome.ok
        /\ Outcome.package = None
        /\ Outcome.kind = "InvalidData"

\* C8, amended: every malformed input (wrong magic, version other than 1, CRC
\* mismatch, fewer than 16 header bytes, fewer body bytes than declared) is
\* answered with an io::Error and never with a package; the error's kind is
\* UnexpectedEof when the failing check is a short read of the header or of
\* the body, and InvalidData when it is the magic, the version or the CRC.
C8_MalformedInputIsAnError ==
    (pc = "done" /\ Malformed(wire)) =>
        /\ ~Outcome.ok
        /\ Outcome.package = None
        /\ Outcome.kind =
              IF EarliestFailure(wire) = "failed to fill whole buffer"
              THEN "UnexpectedEof" ELSE "InvalidData"

\* C8 witness: an artifact cut inside its body, with magic and version intact,
\* has been read and answered with UnexpectedEof.
C8_Witness ==
    /\ pc = "done"
    /\ ShortBody(wire)
    /\ ~WrongMagic(wire)
    /\ ~WrongVersion(wire)
    /\ Outcome.kind = "UnexpectedEof"
    /\ steps = SubSeq(StepOrder, 1, 4)

\* C9: serialize_episode writes 'ANIM', the version 1 in two little-endian
\* bytes, the flags 0 in two bytes, the body length in four little-endian
\* bytes, the CRC-32 of the body in four little-endian bytes and then the
\* body, which is the encoded package; the count returned is 16 plus the body
\* length and is the number of bytes written. Stated of the state in which
\* serialize_episode has returned and no reader has started.
C9_ArtifactLayoutAndCount ==
    (written # None /\ pc = "idle") =>
        \A body_ \in {bincode_serialize(Written)} :
        LET n == Len(body_)
        IN  /\ SubSeq(sent, 1, 4) = <<65, 78, 73, 77>>
            /\ SubSeq(sent, 5, 6) = <<1, 0>>
            /\ SubSeq(sent, 7, 8) = <<0, 0>>
            /\ SubSeq(sent, 9, 12) = <<n % 256, (n \div 256) % 256, 0, 0>>
            /\ SubSeq(sent, 13, 16) = crc32(body_)
            /\ SubSeq(sent, 17, Len(sent)) = body_
            /\ written[1] = 16 + n
            /\ written[1] = Len(sent)

\* C9 witness: a package of three actors and three cuts has been written, and
\* its body is longer than 128 bytes.
C9_Witness ==
    /\ written # None
    /\ actor_count(Written.scene_graph.actors) = 3
    /\ cut_count(Written.director.sorted_cuts) = 3
    /\ written[1] > 16 + 128
    /\ Len(sent) = written[1]


----------------------------------------------------------------------------
(* Properties of the actor hierarchy *)

Occupied(id) == SlotAt(actors, id) # None
ActorAt(id) == SlotAt(actors, id)[1]
Ids == 0..(Len(actors) - 1)

\* The ids reached from id by following parent handles k times or fewer.
RECURSIVE Ancestors(_, _)
Ancestors(id, k) ==
    IF k = 0 \/ ~Occupied(id) \/ ActorAt(id).parent = None THEN {}
    ELSE {ActorAt(id).parent[1]} \cup Ancestors(ActorAt(id).parent[1], k - 1)

\* No actor is its own ancestor.
Acyclic == \A id \in Ids : id \notin Ancestors(id, Len(actors))

\* C11 as stated: whatever parent handles the added actors carry, no actor is
\* its own ancestor and get_world_transform returns for every ActorId. An
\* actor added with its own id as parent refutes it.
C11_ParentRelationAcyclic ==
    /\ Acyclic
    /\ \A id \in Ids : get_world_transform(actors, id) # None
    /\ world # None => world[1].out # None

\* C12 as stated: the parent handle of every actor names an occupied slot.
\* add_actor stores whatever handle the actor carries.
C12_ParentsResolve ==
    \A id \in Ids :
        (Occupied(id) /\ ActorAt(id).parent # None) => Occupied(ActorAt(id).parent[1])

\* The chain root = a0, ..., an = id, given that it is acyclic and ends at an
\* actor with no parent.
RECURSIVE ChainTo(_, _)
ChainTo(id, k) ==
    IF k = 0 \/ ActorAt(id).parent = None THEN <<id>>
    ELSE Append(ChainTo(ActorAt(id).parent[1], k - 1), id)

HasRootedChain(id) ==
    /\ Occupied(id)
    /\ \A a \in {id} \cup Ancestors(id, Len(actors)) :
          Occupied(a) /\ a \notin Ancestors(a, Len(actors))

\* The composition law: the child's position scaled, turned and moved by the
\* parent; rotations and scales multiplied, the parent's on the left.
Compose(p, c) ==
    [position |-> VecAdd(p.position, QuatRotate(p.rotation, VecMul(p.scale, c.position))),
     rotation |-> QuatMul(p.rotation, c.rotation),
     scale |-> VecMul(p.scale, c.scale)]

\* a0.local combined with a1.local ... combined with the k-th local.
RECURSIVE Composed(_, _)
Composed(chain, k) ==
    IF k = 1 THEN ActorAt(chain[1]).local_transform
    ELSE Compose(Composed(chain, k - 1), ActorAt(chain[k]).local_transform)

RECURSIVE PositionSum(_, _)
PositionSum(chain, k) ==
    IF k = 0 THEN <<0, 0, 0>>
    ELSE VecAdd(PositionSum(chain, k - 1), ActorAt(chain[k]).local_transform.position)

Unturned(chain) ==
    \A k \in 1..Len(chain) :
        /\ ActorAt(chain[k]).local_transform.rotation = <<0, 0, 0, 1>>
        /\ ActorAt(chain[k]).local_transform.scale = <<1, 1, 1>>

\* C13: for an actor with an acyclic parent chain root = a0, ..., an = id,
\* get_world_transform(id) is a0.local combined with a1.local ... combined
\* with an.local, parent first; with identity rotations and unit scales its
\* position is the sum of the local positions; for an id with no occupied
\* slot it is the default transform.
C13_WorldTransformComposesTheChain ==
    world # None =>
        LET id == world[1].id
            chain == ChainTo(id, Len(actors))
        IN  /\ HasRootedChain(id) =>
                  /\ world[1].out = Some(Composed(chain, Len(chain)))
                  /\ Unturned(chain) =>
                        world[1].out[1].position = PositionSum(chain, Len(chain))
            /\ ~Occupied(id) =>
                  world[1].out = Some([position |-> <<0, 0, 0>>, rotation |-> <<0, 0, 0, 1>>,
                                       scale |-> <<1, 1, 1>>])

\* C13 witness: a child at (0,5,0) under a parent at (10,0,0) resolves to
\* (10,5,0), and an actor under a turned and stretched parent has been
\* resolved through a chain of three.
C13_Witness ==
    /\ world # None
    /\ world[1].id = 2
    /\ HasRootedChain(2)
    /\ ChainTo(2, Len(actors)) = <<0, 1, 2>>
    /\ ActorAt(0).local_transform.rotation = <<0, 0, 1, 0>>
    /\ ActorAt(1).local_transform.position = <<10, 0, 0>>
    /\ ActorAt(2).local_transform.position = <<0, 5, 0>>
    /\ world[1].out[1].position = <<-19, -3, 3>>


\* C14: the k-th add_actor call (counted from 0) returns ActorId(k) and stores
\* its actor in slot k, so the handles are distinct and increasing; get_actor
\* returns the stored actor for every issued id and None for every other id;
\* actor_count() is the number of calls.
C14_HandlesAreSlotIndexes ==
    /\ \A k \in 1..Len(added) :
          /\ added[k][1] = k - 1
          /\ SlotAt(actors, added[k][1]) = Some(added[k][2])
    /\ \A id \in 0..(MaxActors + 1) :
          (\A k \in 1..Len(added) : added[k][1] # id) => SlotAt(actors, id) = None
    /\ actor_count(actors) = Len(added)

\* C14 witness: three actors were added, the last under a handle not its
\* own, and the third call returned ActorId(2).
C14_Witness ==
    /\ Len(added) = 3
    /\ added[3][1] = 2
    /\ added[3][2].parent = Some(1)
    /\ SlotAt(actors, 2) = Some(added[3][2])
    /\ SlotAt(actors, 3) = None
    /\ actor_count(actors) = 3


----------------------------------------------------------------------------
(* Properties of the Director's calls *)

Called(name) == dir_call # None /\ dir_call[1][1] = name

\* C15: Director::evaluate(scene, t) returns time = t; when find_active_cut(t)
\* yields (id, cut) it returns active_cut = Some(id) and the camera state
\* cut.camera.evaluate(t - cut.start_time); otherwise active_cut = None and the
\* default camera: position (0, 0, 5), target the origin, fov pi/4.
C15_EvaluateResolvesCutAndCamera ==
    Called("evaluate") =>
        LET t == dir_call[1][2]
            st == dir_out[1]
        IN  /\ st.time = t
            /\ \E found \in find_active_cut(sorted_cuts, t) :
                  IF found # None
                  THEN /\ st.active_cut = Some(found[1][1])
                       /\ st.camera_state =
                              CameraTrack_evaluate(found[1][2].camera,
                                                   t - found[1][2].start_time)
                  ELSE /\ st.active_cut = None
                       /\ st.camera_state =
                              [position |-> <<0, 0, 5>>, target |-> <<0, 0, 0>>,
                               fov |-> FRAC_PI_4]

\* C15 witness: evaluate(2) found the cut [1, 3) with the camera panned by 3
\* per unit of time over [0, 2] and returned the camera of local time 1.
C15_Witness ==
    /\ Called("evaluate")
    /\ dir_call[1][2] = 2
    /\ dir_out[1].active_cut # None
    /\ get_cut(sorted_cuts, dir_out[1].active_cut[1])[1].start_time = 1
    /\ dir_out[1].camera_state.position = <<3, 0, 5>>
    /\ dir_out[1].camera_state.target = <<3, 0, 0>>

EndTimes == {sorted_cuts[i][2].end_time : i \in 1..Len(sorted_cuts)}
Largest(S) == CHOOSE m \in S : \A x \in S : x <= m

\* C17 as stated: duration() returns the maximum end_time over the cuts of
\* the director, and 0 when there are none.
C17_DurationIsTheMaximumEndTime ==
    Called("duration") =>
        dir_out = Some(IF EndTimes = {} THEN 0 ELSE Largest(EndTimes))

\* C17: duration() returns the largest of 0.0 and the end times of the cuts
\* of the director: the maximum end_time when some end_time is not negative,
\* and 0 when there are no cuts or every end_time is negative.
C17_DurationIsTheLargestOfZeroAndEndTimes ==
    Called("duration") => dir_out = Some(Largest(EndTimes \cup {0}))

\* C17 witness: duration() was called on two cuts that both end before 0.0.
C17_Witness ==
    /\ Called("duration")
    /\ Len(sorted_cuts) = 2
    /\ EndTimes = {-2, -1}
    /\ dir_out = Some(0)

\* C18: the k-th add_cut call (counted from 0) returns CutId(k), the issued
\* ids are pairwise distinct, get_cut(id) returns the cut passed to the call
\* that returned id wherever it is stored, and get_cut of an id never issued
\* returns None.
C18_GetCutReturnsThePassedCut ==
    /\ Len(returned) = Len(issued)
    /\ \A k \in 1..Len(returned) :
          /\ returned[k] = k - 1
          /\ \A j \in 1..Len(returned) : j # k => returned[j] # returned[k]
          /\ get_cut(sorted_cuts, returned[k]) = Some(issued[k])
    /\ \A id \in 0..(MaxCuts + 1) :
          (\A k \in 1..Len(returned) : returned[k] # id) =>
              get_cut(sorted_cuts, id) = None
    /\ Called("get_cut") =>
          LET id == dir_call[1][2]
          IN  dir_out = IF id < Len(issued) THEN Some(issued[id + 1]) ELSE None

\* C18 witness: get_cut(CutId(0)) returned the first cut passed, which is
\* stored last of three because it starts last.
C18_Witness ==
    /\ Called("get_cut")
    /\ dir_call[1][2] = 0
    /\ Len(sorted_cuts) = 3
    /\ sorted_cuts[3][1] = 0
    /\ sorted_cuts[1][1] # 0
    /\ dir_out = Some(issued[1])
    /\ issued[1] # issued[2]


----------------------------------------------------------------------------
(* Properties of the evaluation entry points *)

\* An evaluation remembered from before has the result of the last call on
\* the same receiver at the same time.
SameTimeSameResult ==
    earlier # None =>
        LET e == earlier[1]
        IN  /\ (e.receiver = "Director" /\ Called("evaluate") /\ dir_call[1][2] = e.time)
                  => dir_out[1] = e.out
            /\ (e.receiver = "CameraTrack" /\ cam_call = Some(e.time))
                  => cam_out[1] = e.out
            /\ (e.receiver = "SceneGraph" /\ scene_time = Some(e.time))
                  => scene_out[1] = e.out

\* A step that returns from an evaluation leaves the receiver as it was.
ReceiverUntouched ==
    /\ (<<dir_call, dir_out>>' # <<dir_call, dir_out>> /\ dir_call' # None
            /\ dir_call'[1][1] = "evaluate")
          => UNCHANGED <<sorted_cuts, next_id>>
    /\ (<<cam_call, cam_out>>' # <<cam_call, cam_out>> /\ cam_call' # None)
          => UNCHANGED camera
    /\ (<<scene_time, scene_out>>' # <<scene_time, scene_out>> /\ scene_time' # None)
          => UNCHANGED <<actors, actor_next_id, root_actors>>

\* C16: Director::evaluate, CameraTrack::evaluate and
\* SceneGraph::evaluate_scene leave their receiver unchanged (cuts and id
\* counter, channels and shake fields, actors and root list), and two calls
\* with the same time, with no mutation of the receiver between them and any
\* other evaluations interleaved, return equal results.
C16_EvaluationsArePure == [](SameTimeSameResult) /\ [][ReceiverUntouched]_vars

\* C16 witness: Director::evaluate(1) was remembered with an active cut, at
\* least two evaluations followed, the last Director::evaluate was at time 1
\* again with the same result, and the camera track and the scene graph
\* were evaluated as well.
C16_Witness ==
    /\ earlier # None
    /\ earlier[1].receiver = "Director"
    /\ earlier[1].time = 1
    /\ earlier[1].since = 2
    /\ earlier[1].out.active_cut # None
    /\ dir_call = Some(<<"evaluate", 1>>)
    /\ dir_out = Some(earlier[1].out)
    /\ cam_call # None
    /\ scene_time # None

----------------------------------------------------------------------------
(* Properties of the camera presets *)

Applied(kind) == preset # None /\ preset[1].work.kind = kind

\* The channels of a CameraTrack, in the order position, target, fov.
Channels(track) ==
    <<track.position_timeline["position.x"], track.position_timeline["position.y"],
      track.position_timeline["position.z"], track.target_timeline["target.x"],
      track.target_timeline["target.y"], track.target_timeline["target.z"],
      track.fov_track>>

\* Some channel of the track holds a sample at `time`.
HasSampleAt(track, time) ==
    \E c \in 1..7 : \E i \in 1..Len(Channels(track)[c]) : Channels(track)[c][i][1] = time

\* After Pan{speed} over (start, duration), evaluate(start + duration) is the
\* state evaluated at `start` before the preset, shifted by speed * duration
\* along x in position and target.
PanEndsShifted ==
    LET p == preset[1]
        was == CameraTrack_evaluate(p.before, p.start)
        shift == p.work.speed * p.duration
    IN  cam_out[1] =
            [position |-> <<was.position[1] + shift, was.position[2], was.position[3]>>,
             target |-> <<was.target[1] + shift, was.target[2], was.target[3]>>,
             fov |-> was.fov]

PanThenEvaluatedAtEnd ==
    /\ Applied("Pan")
    /\ preset[1].duration > 0
    /\ camera.shake_amplitude <= 0
    /\ cam_call = Some(preset[1].start + preset[1].duration)

RECURSIVE Inserted(_, _, _, _)
Inserted(before, times, value, n) ==
    IF n = 0 THEN before
    ELSE Track_add_keyframe(Inserted(before, times, value, n - 1), Keyframe(times[n], value))

SampleTimes(track) == [i \in 1..Len(track) |-> track[i][1]]

\* The 9 times start + duration * i / 8, i = 0..8.
NineTimes == [i \in 1..9 |-> preset[1].start + (preset[1].duration * (i - 1)) \div 8]

\* The samples an Orbit has added: every channel gained samples at exactly
\* the nine times; those of the target and fov channels hold the state
\* evaluated at `start`, and those of position.y all hold `height`.
OrbitAdded(height) ==
    LET old == Channels(preset[1].before)
        new == Channels(camera)
        current == CameraTrack_evaluate(preset[1].before, preset[1].start)
    IN  /\ \A c \in {1, 3} :
              SampleTimes(new[c]) = SampleTimes(Inserted(old[c], NineTimes, 0, 9))
        /\ new[2] = Inserted(old[2], NineTimes, height, 9)
        /\ \A c \in 4..6 : new[c] = Inserted(old[c], NineTimes, current.target[c - 3], 9)
        /\ new[7] = Inserted(old[7], NineTimes, current.fov, 9)

\* C20 as stated: apply_preset(Orbit{radius, speed}, start, duration) adds
\* keyframes at exactly the 9 times start + duration * i / 8; each has the
\* target and fov of the state evaluated at start, and a position height y
\* equal to the height of the position recorded at start.
C20_OrbitKeepsTheRecordedHeight ==
    Applied("Orbit") =>
        OrbitAdded(CameraTrack_evaluate(preset[1].before, preset[1].start).position[2])


\* The state the seven channels hold at `time`, before any shake.
Sampled(track, time) ==
    [position |-> <<Track_evaluate(Channels(track)[1], time),
                    Track_evaluate(Channels(track)[2], time),
                    Track_evaluate(Channels(track)[3], time)>>,
     target |-> <<Track_evaluate(Channels(track)[4], time),
                  Track_evaluate(Channels(track)[5], time),
                  Track_evaluate(Channels(track)[6], time)>>,
     fov |-> Track_evaluate(Channels(track)[7], time)]

\* C21: evaluate(t) with shake_amplitude <= 0 returns the channel-sampled
\* position; for any shake fields, target, fov and position.z are the values
\* sampled from their channels: shake alters position.x and position.y only.
C21_ShakeMovesOnlyXAndY ==
    cam_call # None =>
        LET s == Sampled(camera, cam_call[1])
            out == cam_out[1]
        IN  /\ out.target = s.target
            /\ out.fov = s.fov
            /\ out.position[3] = s.position[3]
            /\ camera.shake_amplitude <= 0 => out.position = s.position

\* C21 witness: an evaluation under a positive shake amplitude returned a
\* position whose y is off the sampled one; another state has a negative
\* amplitude, which is covered by the same formula.
C21_Witness ==
    /\ cam_call # None
    /\ camera.shake_amplitude > 0
    /\ cam_out[1].position[2] # Sampled(camera, cam_call[1]).position[2]
    /\ cam_out[1].position[3] = Sampled(camera, cam_call[1]).position[3]
    /\ cam_out[1].target # <<0, 0, 0>>

\* The track `old` with a sample of value v1 added at `start` and then one of
\* value v2 at `end`.
TwoAdded(old, start, v1, end, v2) ==
    Track_add_keyframe(Track_add_keyframe(old, Keyframe(start, v1)), Keyframe(end, v2))

\* The channels after a preset that keyed `first` at start and `second` at end.
KeyedTwice(first, second) ==
    LET p == preset[1]
        old == Channels(p.before)
        new == Channels(camera)
        end == p.start + p.duration
    IN  /\ \A c \in 1..3 :
              new[c] = TwoAdded(old[c], p.start, first.position[c], end, second.position[c])
        /\ \A c \in 4..6 :
              new[c] = TwoAdded(old[c], p.start, first.target[c - 3], end, second.target[c - 3])
        /\ new[7] = TwoAdded(old[7], p.start, first.fov, end, second.fov)

ShakeFieldsKept ==
    /\ camera.shake_amplitude = preset[1].before.shake_amplitude
    /\ camera.shake_frequency = preset[1].before.shake_frequency

\* C23: Static leaves the whole track unchanged; Shake{a, f} sets the two
\* shake fields to a and f and adds no keyframe to any channel; the two
\* keyframes of Zoom carry the position and target evaluated at start (and the
\* fov evaluated at start, then target_fov); the end keyframe of Tilt carries
\* the position evaluated at start and the target shifted by speed * duration
\* along y.
C23_PresetsChangeOnlyWhatTheyName ==
    preset # None =>
        LET p == preset[1]
            cur == CameraTrack_evaluate(p.before, p.start)
        IN  /\ p.work.kind = "Static" => camera = p.before
            /\ p.work.kind = "Shake" =>
                  /\ Channels(camera) = Channels(p.before)
                  /\ camera.shake_amplitude = p.work.amplitude
                  /\ camera.shake_frequency = p.work.frequency
            /\ p.work.kind = "Zoom" =>
                  /\ KeyedTwice(cur, [cur EXCEPT !.fov = p.work.target_fov])
                  /\ ShakeFieldsKept
            /\ p.work.kind = "Tilt" =>
                  /\ KeyedTwice(cur,
                        [cur EXCEPT !.target = <<cur.target[1],
                                                  cur.target[2] + p.work.speed * p.duration,
                                                  cur.target[3]>>])
                  /\ ShakeFieldsKept

\* C23 witness: a Tilt by 1 per unit of time over [2, 4] on a track keyed at
\* 2 with position (6, 2, 5) and target (0, 1, 0): the end keyframe holds the
\* position (6, 2, 5) and the target (0, 3, 0).
C23_Witness ==
    /\ Applied("Tilt")
    /\ preset[1].start = 2
    /\ preset[1].duration = 2
    /\ CameraTrack_evaluate(preset[1].before, 2).position = <<6, 2, 5>>
    /\ ~HasSampleAt(preset[1].before, 4)
    /\ Sampled(camera, 4).position = <<6, 2, 5>>
    /\ Sampled(camera, 4).target = <<0, 3, 0>>

\* C28 as stated: for Pan, Tilt, Dolly and Zoom with duration > 0 and any
\* prior track state, a positive shake amplitude included, evaluate(start)
\* after apply_preset equals evaluate(start) before it.
C28_PresetKeepsTheViewAtStart ==
    (/\ preset # None
     /\ preset[1].work.kind \in {"Pan", "Tilt", "Dolly", "Zoom"}
     /\ preset[1].duration > 0)
    => CameraTrack_evaluate(camera, preset[1].start)
          = CameraTrack_evaluate(preset[1].before, preset[1].start)

\* What holds of the code: the same on a track whose shake amplitude is not
\* positive.
PresetKeepsTheViewAtStartUnshaken ==
    (/\ preset # None
     /\ preset[1].work.kind \in {"Pan", "Tilt", "Dolly", "Zoom"}
     /\ preset[1].duration > 0
     /\ preset[1].before.shake_amplitude <= 0)
    => CameraTrack_evaluate(camera, preset[1].start)
          = CameraTrack_evaluate(preset[1].before, preset[1].start)


----------------------------------------------------------------------------
(* AnimationCache *)

\* C22 as stated: after any sequence of get_or_evaluate calls on a cache
\* created with max_frames = N, for any N >= 0 and any frame indexes, the
\* number of frames held never exceeds N.
C22_CacheNeverExceedsMaxFrames == Cardinality(DOMAIN frames) <= max_frames

\* What holds of the code: the map never holds more than max(N, 1) frames.
CacheHoldsAtMostOneOrMaxFrames ==
    Cardinality(DOMAIN frames) <= IF max_frames = 0 THEN 1 ELSE max_frames

\* C29 as stated: against an unchanged director and scene, the state returned
\* for a call (frame_index, time) is one director.evaluate(scene, time)
\* returns, also when the frame index was requested before with another time,
\* and after evictions.
C29_CacheReturnsTheEvaluationAtTheTimePassed ==
    cache_call # None =>
        cache_out[1] \in Director_evaluate(sorted_cuts, cache_call[1].time)

\* What holds of the code: a call returns the evaluation at the time with
\* which its frame index was first stored since the entry was last evicted
\* or cleared (its own time on a miss).
CacheReturnsTheStoredEvaluation ==
    cache_call # None =>
        /\ cache_call[1].frame_index \in DOMAIN frames
        /\ cache_out[1] = frames[cache_call[1].frame_index].state
        /\ cache_out[1] \in Director_evaluate(sorted_cuts,
                                frames[cache_call[1].frame_index].time)


----------------------------------------------------------------------------
(* Properties of the cut sequence under ties, degenerate cuts and edits *)

\* The step is an add_cut call.
CutAdded == Len(issued') = Len(issued) + 1

\* The cut passed to the add_cut call of the step.
NewCut == issued'[Len(issued')]

\* The number of stored cuts that start before `start`: on a sorted sequence,
\* the first position at which a cut starting at `start` keeps it sorted.
FirstSortedPosition(cuts, start) ==
    Cardinality({i \in 1..Len(cuts) : cuts[i][2].start_time < start})

\* C25 as stated: when add_cut inserts a cut whose start_time equals that of
\* cuts already present, the new cut is placed at the first position that
\* keeps the sequence sorted, immediately before the whole run of cuts with
\* that start_time, for every length of the run.
C25_TiesAreInsertedBeforeTheRun ==
    [][(/\ CutAdded
        /\ \E i \in 1..Len(sorted_cuts) : sorted_cuts[i][2].start_time = NewCut.start_time)
       => sorted_cuts' = VecInsert(sorted_cuts,
                                   FirstSortedPosition(sorted_cuts, NewCut.start_time),
                                   <<next_id, NewCut>>)]_vars

\* What holds of the code: the new cut lands before, inside or after the run,
\* and before the whole run when the run is a single cut.
TiesAreInsertedNextToTheRun ==
    [][(/\ CutAdded
        /\ \E i \in 1..Len(sorted_cuts) : sorted_cuts[i][2].start_time = NewCut.start_time)
       => \E pos \in 0..Len(sorted_cuts) :
             /\ sorted_cuts' = VecInsert(sorted_cuts, pos, <<next_id, NewCut>>)
             /\ \A i \in 1..pos : sorted_cuts[i][2].start_time <= NewCut.start_time
             /\ \A i \in (pos + 1)..Len(sorted_cuts) :
                   sorted_cuts[i][2].start_time >= NewCut.start_time
             /\ Cardinality({i \in 1..Len(sorted_cuts) :
                    sorted_cuts[i][2].start_time = NewCut.start_time}) = 1
                => pos = FirstSortedPosition(sorted_cuts, NewCut.start_time)]_vars

\* C26: when the cuts have positive duration and pairwise-disjoint windows,
\* what find_active_cut(t) returns is what its variant without the index-0
\* check returns, for every time asked, and a time that precedes every
\* start_time yields None.
C26_IndexZeroCheckIsRedundantOnDisjointCuts ==
    (query # None /\ PositiveDisjoint(sorted_cuts)) =>
        /\ active \in find_active_cut_without_fallback(sorted_cuts, query[1])
        /\ find_active_cut(sorted_cuts, query[1])
              = find_active_cut_without_fallback(sorted_cuts, query[1])
        /\ (\A i \in 1..Len(sorted_cuts) : query[1] < sorted_cuts[i][2].start_time)
              => active = None

\* C26 witness: two disjoint cuts, the first starting at 1, and a query at 0
\* answered None: the candidate check has nothing to test and index 0 does
\* not hold the time.
C26_Witness ==
    /\ Len(sorted_cuts) = 2
    /\ PositiveDisjoint(sorted_cuts)
    /\ sorted_cuts[1][2].start_time = 1
    /\ query = Some(0)
    /\ active = None

\* C27 as stated: adding a cut with end_time <= start_time to a Director
\* holding positive-duration, pairwise-disjoint cuts does not change the
\* result of find_active_cut(t) for any time t.
C27_DegenerateCutChangesNoAnswer ==
    [][(/\ CutAdded
        /\ NewCut.end_time <= NewCut.start_time
        /\ PositiveDisjoint(sorted_cuts))
       => \A t \in Times :
             find_active_cut(sorted_cuts', t) = find_active_cut(sorted_cuts, t)]_vars

\* C30 as stated: the cut sequence is in non-decreasing start_time order in
\* every reachable state, also after start times are edited in place through
\* get_cut_mut and further cuts are added; and find_active_cut returns a cut
\* that contains t whenever the windows are pairwise disjoint and one
\* contains t.
C30_SortedAndFindingUnderEdits ==
    /\ \A i, j \in 1..Len(sorted_cuts) :
          i < j => sorted_cuts[i][2].start_time <= sorted_cuts[j][2].start_time
    /\ (/\ query # None
        /\ PositiveDisjoint(sorted_cuts)
        /\ Holders(sorted_cuts, query[1]) # {})
       => /\ active # None
          /\ contains_time(active[1][2], query[1])

\* The second part of C30 alone.
FindingUnderEdits ==
    (/\ query # None
     /\ PositiveDisjoint(sorted_cuts)
     /\ Holders(sorted_cuts, query[1]) # {})
    => /\ active # None
       /\ contains_time(active[1][2], query[1])


----------------------------------------------------------------------------
(* Properties of root_actors *)

\* The handles of the stored actors whose parent is None.
Parentless ==
    {id \in 0..(Len(actors) - 1) : actors[id + 1] # None /\ actors[id + 1][1].parent = None}

\* C24 as stated: in every reachable SceneGraph state, after any sequence of
\* add_actor calls and in-place parent changes made through get_actor_mut,
\* root_actors contains exactly the handles of the actors whose parent is
\* None, each once.
C24_RootActorsAreTheParentless ==
    /\ {root_actors[i] : i \in 1..Len(root_actors)} = Parentless
    /\ \A i, j \in 1..Len(root_actors) : root_actors[i] = root_actors[j] => i = j

\* What holds of the code: root_actors lists, once each and in call order, the
\* handles of the actors that had no parent when add_actor received them.
RootActorsAreTheParentlessAsAdded ==
    /\ {root_actors[i] : i \in 1..Len(root_actors)}
          = {added[k][1] : k \in {n \in 1..Len(added) : added[n][2].parent = None}}
    /\ \A i, j \in 1..Len(root_actors) : i < j => root_actors[i] < root_actors[j]

====
